---- MODULE Spec2Model ----
(***************************************************************************)
(* Local caching and correlation engine of wqb-mcp.                        *)
(*                                                                         *)
(*   StaticCache  (client/static_cache.py): TTL key -> file cache          *)
(*   AlphaCache   (client/local_correlation.py): per-alpha series + index   *)
(*   LocalCorrelationMixin (client/local_correlation.py): baseline sync     *)
(*                                                                         *)
(* Specifications:                                                         *)
(*   Spec      StaticCache, one public call per step                        *)
(*   SpecRT    write_table / read_table over every table of the cell domain *)
(*   SpecAW    the temp-file + os.replace protocol, one system call a step  *)
(*   SpecSync  check_local_correlation / _sync_baseline, one await a step   *)
(***************************************************************************)
EXTENDS Integers, Sequences, FiniteSets, TLC

(***************************************************************************)
(* Bounds of the model.                                                    *)
(***************************************************************************)
\* the clock runs over 0..MaxTime (one unit = one day)
MaxTime == 2
\* the largest ttl_days a caller passes
MaxTtl == 1
\* tables of SpecRT have 1..MaxRows rows
MaxRows == 2

(***************************************************************************)
(* Python values.  A value is a pair <<tag, payload>>:                     *)
(*   <<"none", <<>>>>         None                                          *)
(*   <<"int",  digits>>       an int, by its decimal digits                 *)
(*   <<"str",  chars>>        a str, by its characters                      *)
(*   <<"list", items>>        a list of values                              *)
(*   <<"dict", pairs>>        a dict: a sequence of <<key chars, value>>    *)
(***************************************************************************)
PNone == <<"none", <<>>>>
PInt(ds) == <<"int", ds>>
PStr(s) == <<"str", s>>
PList(xs) == <<"list", xs>>
PDict(kv) == <<"dict", kv>>

IsNested(v) == v[1] \in {"list", "dict"}

Digits == {"0", "1", "2", "3", "4", "5", "6", "7", "8", "9"}

(***************************************************************************)
(* json.dumps with the default separators.                                 *)
(***************************************************************************)
RECURSIVE Escape(_)
Escape(s) ==
    IF s = <<>> THEN <<>>
    ELSE (IF Head(s) \in {"\"", "\\"} THEN <<"\\", Head(s)>> ELSE <<Head(s)>>)
         \o Escape(Tail(s))

RECURSIVE Dumps(_), DumpsItems(_), DumpsPairs(_)
Dumps(v) ==
    CASE v[1] = "none" -> <<"n", "u", "l", "l">>
      [] v[1] = "int"  -> v[2]
      [] v[1] = "str"  -> <<"\"">> \o Escape(v[2]) \o <<"\"">>
      [] v[1] = "list" -> <<"[">> \o DumpsItems(v[2]) \o <<"]">>
      [] v[1] = "dict" -> <<"{">> \o DumpsPairs(v[2]) \o <<"}">>

DumpsItems(xs) ==
    IF xs = <<>> THEN <<>>
    ELSE Dumps(Head(xs))
         \o (IF Tail(xs) = <<>> THEN <<>> ELSE <<",", " ">> \o DumpsItems(Tail(xs)))

DumpsPairs(kv) ==
    IF kv = <<>> THEN <<>>
    ELSE <<"\"">> \o Escape(Head(kv)[1]) \o <<"\"", ":", " ">> \o Dumps(Head(kv)[2])
         \o (IF Tail(kv) = <<>> THEN <<>> ELSE <<",", " ">> \o DumpsPairs(Tail(kv)))

(***************************************************************************)
(* The values of the model.  Strings are chosen so that each one is either *)
(* the json.dumps text of a value below or no JSON document at all.        *)
(***************************************************************************)
NestedValues ==
    { PList(<<>>),
      PList(<<PStr(<<"t">>)>>),
      PDict(<< <<<<"i", "d">>, PStr(<<"c">>)>> >>) }

StrValues ==
    { PStr(<<>>),                       \* ""
      PStr(<<"a">>),                    \* "a"
      PStr(<<"7">>),                    \* "7"
      PStr(<<"[", "]">>),               \* "[]"
      PStr(<<"[", "x">>),               \* "[x"
      PStr(<<"\"", "a", "\"">>) }       \* "\"a\""

ScalarValues == {PNone, PInt(<<"1">>)} \cup StrValues

CellValues == ScalarValues \cup NestedValues

\* what json.loads can return in the model
JsonUniverse ==
    NestedValues \cup {PNone, PInt(<<"1">>), PInt(<<"7">>), PStr(<<"a">>), PStr(<<"t">>), PStr(<<"c">>)}

(***************************************************************************)
(* json.loads: the value whose document the text is; ok = FALSE stands for *)
(* json.JSONDecodeError.                                                   *)
(***************************************************************************)
Loads(text) ==
    LET hits == {v \in JsonUniverse : Dumps(v) = text}
    IN  IF hits = {} THEN [ok |-> FALSE, val |-> PNone]
        ELSE [ok |-> TRUE, val |-> CHOOSE v \in hits : TRUE]

(***************************************************************************)
(* Tables: a table is a sequence of rows, a row maps each column to a      *)
(* value.  The on-disk CSV is the header and, per row, the text of each    *)
(* cell (csv quoting is lossless on a cell's text and is not modelled).    *)
(***************************************************************************)
Header == <<"v">>
Cols == {Header[i] : i \in 1..Len(Header)}

\* write_table: nested dicts/lists are JSON-encoded before the frame is built
EncodeCell(v) == IF IsNested(v) THEN PStr(Dumps(v)) ELSE v

\* pd.DataFrame(csv_rows): a column of ints and None becomes float64
IsFloatColumn(col) ==
    /\ \A i \in 1..Len(col) : col[i][1] \in {"int", "none"}
    /\ \E i \in 1..Len(col) : col[i][1] = "int"
    /\ \E i \in 1..Len(col) : col[i][1] = "none"

\* df.to_csv: the text of cell i of a column (None and NaN are written as '')
to_csv_cell(col, i) ==
    CASE col[i][1] = "none" -> <<>>
      [] col[i][1] = "int"  -> IF IsFloatColumn(col) THEN col[i][2] \o <<".", "0">> ELSE col[i][2]
      [] col[i][1] = "str"  -> col[i][2]

to_csv(rows) ==
    LET column(c) == [i \in 1..Len(rows) |-> EncodeCell(rows[i][c])]
    IN  [header |-> Header,
         lines  |-> [i \in 1..Len(rows) |-> [c \in Cols |-> to_csv_cell(column(c), i)]]]

IsIntText(t) == t # <<>> /\ \A i \in 1..Len(t) : t[i] \in Digits

RECURSIVE StripZeros(_)
StripZeros(t) == IF Len(t) > 1 /\ Head(t) = "0" THEN StripZeros(Tail(t)) ELSE t

\* pd.read_csv(keep_default_na=False): a column whose every cell is an integer
\* literal is read as ints, any other column as strings ('' stays '').  A column
\* of float literals only cannot arise: to_csv_cell writes "d.0" only beside ''.
read_csv_cell(texts, i) ==
    IF \A j \in 1..Len(texts) : IsIntText(texts[j])
    THEN PInt(StripZeros(texts[i]))
    ELSE PStr(texts[i])

read_csv(doc) ==
    LET texts(c) == [i \in 1..Len(doc.lines) |-> doc.lines[i][c]]
    IN  [i \in 1..Len(doc.lines) |-> [c \in Cols |-> read_csv_cell(texts(c), i)]]

RECURSIVE LStrip(_)
LStrip(s) == IF s # <<>> /\ Head(s) = " " THEN LStrip(Tail(s)) ELSE s

RECURSIVE RStrip(_)
RStrip(s) == IF s # <<>> /\ s[Len(s)] = " " THEN RStrip(SubSeq(s, 1, Len(s) - 1)) ELSE s

Strip(s) == RStrip(LStrip(s))

\* mutant of parse_cell: JSON-looking cells are left as strings
parse_cell_raw(value) ==
    IF value[1] = "str" /\ value[2] = <<>> THEN PNone ELSE value

\* StaticCache._parse_cell
parse_cell(value) ==
    IF value[1] # "str" THEN value
    ELSE IF value[2] = <<>> THEN PNone
    ELSE LET s == Strip(value[2])
         IN  IF s # <<>> /\ s[1] \in {"{", "[", "\""} /\ Loads(s).ok
             THEN Loads(s).val
             ELSE value

\* rows as read_table rebuilds them from the parsed file
ParseRows(doc) ==
    LET raw == read_csv(doc)
    IN  [i \in 1..Len(raw) |-> [c \in Cols |-> parse_cell(raw[i][c])]]

(***************************************************************************)
(* StaticCache: keys, file sub-paths and payloads of the model.            *)
(* Callers use a key with one payload format only (data.py, operators.py:  *)
(* tables; simulation.py: dicts), so keys and paths are typed.             *)
(***************************************************************************)
TableKeys == {"t1", "t2"}
DictKeys == {"j1"}
Keys == TableKeys \cup DictKeys

CsvPaths == {"a/x.csv"}
JsonPaths == {"b/y.json"}
Paths == CsvPaths \cup JsonPaths

\* the sub-directory of the cache root a file sub-path lies in
Parent(p) == IF p = "a/x.csv" THEN "a" ELSE "b"

Ttls == 1..MaxTtl
Times == 0..MaxTime

T1 == << [v |-> PList(<<PStr(<<"t">>)>>)] >>
Tables == {<<>>, T1}

D1 == PDict(<< <<<<"i", "d">>, PStr(<<"c">>)>> >>)
Dicts == {D1}

INDEX_VERSION == 1

(***************************************************************************)
(* State.                                                                  *)
(*   now        the clock (_now)                                            *)
(*   files      payload files on disk: sub-path -> content                  *)
(*   dirs       sub-directories of the cache root that exist                *)
(*   meta       the .meta.json entries, by the sub-path they describe       *)
(*   diskIndex  cache_index.json: <<>> (no file) or <<index>>               *)
(*   memIndex   StaticCache._index: <<>> (None) or <<index>>                *)
(*   last       the last public call, ret its outcome                       *)
(*   clashed    history: the sub-paths written under one key while the      *)
(*              index entry of another key referred to them                 *)
(***************************************************************************)
VARIABLES now, files, dirs, meta, diskIndex, memIndex, last, ret, clashed

cacheVars == <<now, files, dirs, meta, diskIndex, memIndex, last, ret, clashed>>

(***************************************************************************)
(* SpecRT only: rtRows is the table under test, rtWritten records the      *)
(* write_table call made with it (<<>>: none yet).                         *)
(***************************************************************************)
VARIABLES rtRows, rtWritten

rtVars == <<rtRows, rtWritten>>

(***************************************************************************)
(* SpecAW only: the file system seen one system call at a time.            *)
(*   fsys          file name -> [obj, state]: the object whose              *)
(*                 serialization the file holds and how much of it is there *)
(*                 ("empty", "partial", "whole"); temp files included       *)
(*   awCall        the write in flight, or how the last one ended           *)
(*   awIndex       StaticCache._index, awAlphaIndex AlphaCache._index       *)
(***************************************************************************)
VARIABLES fsys, awCall, awIndex, awAlphaIndex

awVars == <<fsys, awCall, awIndex, awAlphaIndex>>

(***************************************************************************)
(* SpecSync only: the alpha cache and a local correlation check in flight.  *)
(*   roster       ids of the OS alphas on the platform                      *)
(*   aIndexFile   alpha_cache/index.json: <<>> or <<index>>                 *)
(*   aDirs        ids whose alphas/<id>/ directory exists, "." for the root *)
(*   aSeries      id -> frame stored in alphas/<id>/daily-pnl.parquet       *)
(*   aMem         AlphaCache._index: <<>> (None) or <<index>>               *)
(*   aAllReturns  AlphaCache._all_returns: <<>> (None) or <<id -> rows>>    *)
(*   call         the call in flight and the locals of _sync_baseline       *)
(*   hist         what the call has done so far, and the cache as it found  *)
(*                it                                                        *)
(***************************************************************************)
VARIABLES roster, aIndexFile, aDirs, aSeries, aMem, aAllReturns, call, hist

alphaCacheVars == <<aIndexFile, aDirs, aSeries, aMem, aAllReturns>>

syncVars == <<roster, alphaCacheVars, call, hist>>

(***************************************************************************)
(* The computations of the correlation engine (pure functions of their     *)
(* arguments and of the cache object they are called on).                  *)
(*   args   the arguments of the call at hand, <<>> before they are chosen *)
(*   out    <<>> until the call has returned, then <<result>>              *)
(***************************************************************************)
VARIABLES args, out

calcVars == <<args, out>>

notCache == <<rtVars, awVars, syncVars, calcVars>>

notRt == <<awVars, syncVars, calcVars>>

notAw == <<cacheVars, rtVars, syncVars, calcVars>>

notSync == <<cacheVars, rtVars, awVars, calcVars>>

notCalc == <<cacheVars, rtVars, awVars, syncVars>>

\* a partial map without key k, and with k bound to e
Without(f, k) == [x \in DOMAIN f \ {k} |-> f[x]]
With(f, k, e) == [x \in DOMAIN f \cup {k} |-> IF x = k THEN e ELSE f[x]]
EmptyMap == [x \in {} |-> x]

\* file contents: a CSV document, a JSON text, or a zero-byte file
CsvFile(doc) == [kind |-> "csv", lines |-> doc.lines, header |-> doc.header, text |-> <<>>]
JsonFile(text) == [kind |-> "json", lines |-> <<>>, header |-> <<>>, text |-> text]
EmptyFile == [kind |-> "empty", lines |-> <<>>, header |-> <<>>, text |-> <<>>]

\* outcomes of a call: a returned value (<<>> is None) or a raised exception
Returned(v) == [raised |-> FALSE, val |-> <<v>>]
ReturnedNone == [raised |-> FALSE, val |-> <<>>]
Raised == [raised |-> TRUE, val |-> <<>>]

\* datetime.isoformat / datetime.fromisoformat
isoformat(t) == <<"iso", t>>
fromisoformat(s) == s[2]

EmptyIndex == [version |-> INDEX_VERSION, entries |-> EmptyMap]

\* StaticCache._load_index: the index the instance works on after the call
load_index ==
    IF memIndex # <<>> THEN memIndex[1]
    ELSE IF diskIndex # <<>> /\ diskIndex[1].version = INDEX_VERSION THEN diskIndex[1]
    ELSE EmptyIndex

\* mutant of is_entry_valid: the comparison is not strict
is_entry_valid_inclusive(entry) == now <= fromisoformat(entry.cached_at) + entry.ttl_days

\* StaticCache._is_entry_valid
is_entry_valid(entry) == now < fromisoformat(entry.cached_at) + entry.ttl_days

\* StaticCache.is_valid
is_valid(k) ==
    LET idx == load_index
    IN  IF k \notin DOMAIN idx.entries THEN FALSE
        ELSE is_entry_valid(idx.entries[k])

\* StaticCache.get: <<>> (None) or <<entry>>
get(k) ==
    LET idx == load_index
    IN  IF k \notin DOMAIN idx.entries \/ ~is_entry_valid(idx.entries[k]) THEN <<>>
        ELSE IF idx.entries[k].path \notin DOMAIN files THEN <<>>
        ELSE <<idx.entries[k]>>

\* mutant of read_table: the parse error is not caught
read_table_unguarded(k) ==
    LET entry == get(k)
    IN  IF entry = <<>> THEN ReturnedNone
        ELSE LET f == files[entry[1].path]
             IN  IF f.kind # "csv" THEN Raised
                 ELSE Returned(ParseRows(f))

\* StaticCache.read_table: pd.read_csv raises on a file it cannot parse, and
\* the except clause turns every exception into None
read_table(k) ==
    LET entry == get(k)
    IN  IF entry = <<>> THEN ReturnedNone
        ELSE LET f == files[entry[1].path]
             IN  IF f.kind # "csv" THEN ReturnedNone
                 ELSE Returned(ParseRows(f))

\* StaticCache.read_dict: json.load raises on a file that is no JSON document
read_dict(k) ==
    LET entry == get(k)
    IN  IF entry = <<>> THEN ReturnedNone
        ELSE LET f == files[entry[1].path]
             IN  IF f.kind # "json" \/ ~Loads(f.text).ok THEN ReturnedNone
                 ELSE Returned(Loads(f.text).val)

(***************************************************************************)
(* StaticCache: one public call per step.                                  *)
(***************************************************************************)
\* last: the call, its key, the path it touched and what it found there
NoCall == [op |-> "init", key |-> "-", path |-> "-", note |-> "-"]
Noted(op, k, p, n, r) == last' = [op |-> op, key |-> k, path |-> p, note |-> n] /\ ret' = r
Call(op, k, p, r) == Noted(op, k, p, "-", r)

\* StaticCache._update_index_and_meta (rc: <<>> or <<record_count>>)
update_index_and_meta(k, p, ttl, rc) ==
    LET entry_data == [cached_at |-> isoformat(now), ttl_days |-> ttl, path |-> p,
                       record_count |-> rc]
        meta_entry == [cached_at |-> isoformat(now), ttl_days |-> ttl, record_count |-> rc]
        idx == [load_index EXCEPT !.entries = With(@, k, entry_data)]
    IN  /\ memIndex' = <<idx>>
        /\ diskIndex' = <<idx>>
        /\ meta' = With(meta, p, meta_entry)

\* the path p, if the entry of a key other than k refers to it
clash(k, p) ==
    IF \E k2 \in DOMAIN load_index.entries \ {k} : load_index.entries[k2].path = p
    THEN {p} ELSE {}

IsValid(k) ==
    /\ Call("is_valid", k, "-", Returned(is_valid(k)))
    /\ memIndex' = <<load_index>>
    /\ UNCHANGED <<now, files, dirs, meta, diskIndex, clashed>>

\* mutant of Get: an expired entry is dropped on sight, with its file
GetEvicting(k) ==
    /\ Call("get", k, "-", [raised |-> FALSE, val |-> get(k)])
    /\ IF k \in DOMAIN load_index.entries /\ ~is_entry_valid(load_index.entries[k])
       THEN /\ memIndex' = <<[load_index EXCEPT !.entries = Without(@, k)]>>
            /\ diskIndex' = memIndex'
            /\ files' = Without(files, load_index.entries[k].path)
       ELSE /\ memIndex' = <<load_index>>
            /\ UNCHANGED <<diskIndex, files>>
    /\ UNCHANGED <<now, dirs, meta, clashed>>

Get(k) ==
    /\ Call("get", k, "-", [raised |-> FALSE, val |-> get(k)])
    /\ memIndex' = <<load_index>>
    /\ UNCHANGED <<now, files, dirs, meta, diskIndex, clashed>>

ReadTable(k) ==
    /\ Call("read_table", k, "-", read_table(k))
    /\ memIndex' = <<load_index>>
    /\ UNCHANGED <<now, files, dirs, meta, diskIndex, clashed>>

ReadDict(k) ==
    /\ Call("read_dict", k, "-", read_dict(k))
    /\ memIndex' = <<load_index>>
    /\ UNCHANGED <<now, files, dirs, meta, diskIndex, clashed>>

WriteTable(k, rows, ttl, p) ==
    /\ Call("write_table", k, p, ReturnedNone)
    /\ IF rows = <<>>
       THEN UNCHANGED <<files, dirs, meta, diskIndex, memIndex, clashed>>
       ELSE /\ files' = With(files, p, CsvFile(to_csv(rows)))
            /\ dirs' = dirs \cup {Parent(p)}
            /\ update_index_and_meta(k, p, ttl, <<Len(rows)>>)
            /\ clashed' = clashed \cup clash(k, p)
    /\ UNCHANGED now

\* mutant of WriteDict: the index and the metadata are updated, no payload file
\* is written
WriteDictNoPayload(k, data, ttl, p) ==
    /\ Call("write_dict", k, p, ReturnedNone)
    /\ update_index_and_meta(k, p, ttl, <<>>)
    /\ clashed' = clashed \cup clash(k, p)
    /\ UNCHANGED <<now, files, dirs>>

WriteDict(k, data, ttl, p) ==
    /\ Call("write_dict", k, p, ReturnedNone)
    /\ files' = With(files, p, JsonFile(Dumps(data)))
    /\ dirs' = dirs \cup {Parent(p)}
    /\ update_index_and_meta(k, p, ttl, <<>>)
    /\ clashed' = clashed \cup clash(k, p)
    /\ UNCHANGED now

\* mutant of unlink: the backing file is left in place
unlink_skipped(p) == files

\* Path.unlink(missing_ok=True): the payload files without p
unlink(p) == Without(files, p)

Invalidate(k) ==
    LET idx == load_index
    IN  /\ IF k \in DOMAIN idx.entries
           THEN LET popped == [idx EXCEPT !.entries = Without(@, k)]
                IN  /\ memIndex' = <<popped>>
                    /\ diskIndex' = <<popped>>
                    /\ files' = unlink(idx.entries[k].path)
                    /\ Noted("invalidate", k, idx.entries[k].path,
                             IF is_entry_valid(idx.entries[k]) THEN "valid" ELSE "expired",
                             ReturnedNone)
           ELSE /\ memIndex' = <<idx>>
                /\ UNCHANGED <<diskIndex, files>>
                /\ Call("invalidate", k, "-", ReturnedNone)
        /\ UNCHANGED <<now, dirs, meta, clashed>>

\* mutant of InvalidateAll: the loop does not skip cache_index.json
InvalidateAllNoSkip ==
    /\ memIndex' = <<EmptyIndex>>
    /\ diskIndex' = <<>>
    /\ dirs' = {}
    /\ files' = EmptyMap
    /\ meta' = EmptyMap
    /\ Noted("invalidate_all", "-", "-",
             IF dirs # {} /\ DOMAIN load_index.entries # {} THEN "nonempty" ELSE "-",
             ReturnedNone)
    /\ UNCHANGED <<now, clashed>>

\* StaticCache.invalidate_all: the index is reset and saved, then every child
\* of the root but cache_index.json is removed
InvalidateAll ==
    /\ memIndex' = <<EmptyIndex>>
    /\ diskIndex' = <<EmptyIndex>>
    /\ dirs' = {}
    /\ files' = EmptyMap
    /\ meta' = EmptyMap
    /\ Noted("invalidate_all", "-", "-",
             IF dirs # {} /\ DOMAIN load_index.entries # {} THEN "nonempty" ELSE "-",
             ReturnedNone)
    /\ UNCHANGED <<now, clashed>>

\* StaticCache.__init__: a new instance over the same root
NewInstance ==
    /\ memIndex # <<>>
    /\ memIndex' = <<>>
    /\ Call("init", "-", "-", ReturnedNone)
    /\ UNCHANGED <<now, files, dirs, meta, diskIndex, clashed>>

\* the clock advances
Tick ==
    /\ now < MaxTime
    /\ now' = now + 1
    /\ Call("env", "-", "-", ReturnedNone)
    /\ UNCHANGED <<files, dirs, meta, diskIndex, memIndex, clashed>>

\* the environment truncates a payload file (the damage read_table and
\* read_dict guard against with their except clauses)
Damage(p) ==
    /\ p \in DOMAIN files
    /\ files[p] # EmptyFile
    /\ files' = With(files, p, EmptyFile)
    /\ Call("env", "-", p, ReturnedNone)
    /\ UNCHANGED <<now, dirs, meta, diskIndex, memIndex, clashed>>

CacheInit ==
    /\ now = 0
    /\ files = EmptyMap
    /\ dirs = {}
    /\ meta = EmptyMap
    /\ diskIndex = <<>>
    /\ memIndex = <<>>
    /\ last = NoCall
    /\ ret = ReturnedNone
    /\ clashed = {}

RtIdle == rtRows = <<>> /\ rtWritten = <<>>

\* file names of SpecAW: <<directory, base name, serial>>, serial 0 but for temp files
FileName(dir, base) == <<dir, base, 0>>
NoName == FileName("-", "-")

AwIdleCall == [op |-> "idle", phase |-> "returned", stage |-> "-", dest |-> NoName,
               tmp |-> NoName, key |-> "-", path |-> "-", ttl |-> 0, rc |-> <<>>,
               obj |-> <<>>, old |-> <<>>, replaced |-> FALSE, n |-> 0]

AwIdle ==
    /\ fsys = EmptyMap
    /\ awCall = AwIdleCall
    /\ awIndex = <<>>
    /\ awAlphaIndex = <<>>

DiskNow == [index |-> aIndexFile, dirs |-> aDirs, series |-> aSeries]

NoCallYet == [pc |-> "idle", kind |-> "-", check_types |-> <<>>, error |-> "-",
              loaded |-> <<>>, cached_ids |-> {}, fetched |-> <<>>, offset |-> 0,
              total |-> <<>>, stale_ids |-> {}, new_alphas |-> <<>>, i |-> 1, synced |-> 0,
              result |-> <<>>]

NoHist == [before |-> [index |-> <<>>, dirs |-> {}, series |-> EmptyMap],
           snap |-> [index |-> <<>>, dirs |-> {}, series |-> EmptyMap],
           mem |-> <<>>, memo |-> <<>>, authenticated |-> FALSE, roster_failed |-> FALSE,
           pages |-> 0, saves |-> 0, cand |-> 0, fetched |-> {}, failed |-> {}]

SyncIdle ==
    /\ roster = {}
    /\ aIndexFile = <<>>
    /\ aDirs = {}
    /\ aSeries = EmptyMap
    /\ aMem = <<>>
    /\ aAllReturns = <<>>
    /\ call = NoCallYet
    /\ hist = NoHist

CalcIdle == args = <<>> /\ out = <<>>

Init == CacheInit /\ RtIdle /\ AwIdle /\ SyncIdle /\ CalcIdle

Next ==
    \/ \E k \in Keys : IsValid(k) /\ UNCHANGED notCache
    \/ \E k \in Keys : Get(k) /\ UNCHANGED notCache
    \/ \E k \in TableKeys : ReadTable(k) /\ UNCHANGED notCache
    \/ \E k \in DictKeys : ReadDict(k) /\ UNCHANGED notCache
    \/ \E k \in TableKeys, rows \in Tables, ttl \in Ttls, p \in CsvPaths :
          WriteTable(k, rows, ttl, p) /\ UNCHANGED notCache
    \/ \E k \in DictKeys, data \in Dicts, ttl \in Ttls, p \in JsonPaths :
          WriteDict(k, data, ttl, p) /\ UNCHANGED notCache
    \/ \E k \in Keys : Invalidate(k) /\ UNCHANGED notCache
    \/ InvalidateAll /\ UNCHANGED notCache
    \/ NewInstance /\ UNCHANGED notCache
    \/ Tick /\ UNCHANGED notCache
    \/ \E p \in Paths : Damage(p) /\ UNCHANGED notCache

vars == <<cacheVars, rtVars, awVars, syncVars, calcVars>>

Spec == Init /\ [][Next]_vars

(***************************************************************************)
(* SpecRT: one table, written under key "t1" and read back.                *)
(***************************************************************************)
RowsOfLen(n) == [1..n -> [Cols -> CellValues]]
AllTables == UNION {RowsOfLen(n) : n \in 1..MaxRows}

RtInit == CacheInit /\ rtRows \in AllTables /\ rtWritten = <<>> /\ AwIdle /\ SyncIdle /\ CalcIdle

RtWrite(ttl) ==
    /\ WriteTable("t1", rtRows, ttl, "a/x.csv")
    /\ rtWritten' = <<[at |-> now, ttl_days |-> ttl]>>
    /\ UNCHANGED <<rtRows, notRt>>

RtRead == ReadTable("t1") /\ UNCHANGED <<rtVars, notRt>>

RtTick == Tick /\ UNCHANGED <<rtVars, notRt>>

RtNext ==
    \/ \E ttl \in Ttls : RtWrite(ttl)
    \/ RtRead
    \/ RtTick

SpecRT == RtInit /\ [][RtNext]_vars

(***************************************************************************)
(* Claims on StaticCache (specification Spec).                             *)
(***************************************************************************)
\* the index the instance holds once a call has loaded it
Entries == IF memIndex = <<>> THEN EmptyMap ELSE memIndex[1].entries
DiskEntries == IF diskIndex = <<>> THEN EmptyMap ELSE diskIndex[1].entries
Fresh(e) == now < e.cached_at[2] + e.ttl_days
IsRead == last.op \in {"read_table", "read_dict"}

\* the four miss cases of the read path, for the key of the last call
KeyMissing == last.key \notin DOMAIN Entries
KeyExpired == last.key \in DOMAIN Entries /\ ~Fresh(Entries[last.key])
FileMissing == last.key \in DOMAIN Entries /\ Entries[last.key].path \notin DOMAIN files
FileCorrupt ==
    /\ last.key \in DOMAIN Entries
    /\ Entries[last.key].path \in DOMAIN files
    /\ files[Entries[last.key].path].kind = "empty"

\* the calls that only read
Readers == {"is_valid", "get", "read_table", "read_dict"}
Removers == {"invalidate", "invalidate_all", "write_table", "write_dict"}

\* C22: is_valid, get, read_table and read_dict leave the persisted index, the
\* directory metadata and every payload file as they were; an expired entry
\* stays in the index, and its file on disk, through every step that is not an
\* invalidate, an invalidate_all or a write.
C22_ReadsModifyNothing ==
    [][/\ last'.op \in Readers => UNCHANGED <<diskIndex, meta, files, dirs>>
       /\ last'.op \notin Removers =>
              \A k \in DOMAIN DiskEntries :
                  ~Fresh(DiskEntries[k]) =>
                      /\ k \in DOMAIN DiskEntries' /\ DiskEntries'[k] = DiskEntries[k]
                      /\ DiskEntries[k].path \in DOMAIN files
                             => DiskEntries[k].path \in DOMAIN files']_vars

\* a read call on a key whose entry has expired: the call found nothing, and the
\* entry is still in the index on disk, its file still there
C22_Witness ==
    /\ last.op \in Readers
    /\ last.key \in DOMAIN DiskEntries
    /\ ~Fresh(DiskEntries[last.key])
    /\ DiskEntries[last.key].path \in DOMAIN files
    /\ (last.op = "is_valid" => ret.val = <<FALSE>>)
    /\ (last.op # "is_valid" => ret.val = <<>>)

\* C27 as stated: whatever the write and invalidate calls so far, a key for
\* which is_valid returns true has its backing file on disk, so get returns its
\* entry.
C27_ValidImpliesPresent ==
    \A k \in Keys : is_valid(k) => get(k) # <<>>

\* C27, amended: a key for which is_valid returns true has its backing file on
\* disk, so get returns its entry, provided its file path was never written
\* under one key while the index entry of another key referred to it.
C27_ValidImpliesPresentOnOwnPath ==
    \A k \in Keys :
        (is_valid(k) /\ load_index.entries[k].path \notin clashed) => get(k) # <<>>

\* another key has just been invalidated while it was valid, and this key, on
\* a path of its own, is still valid with its file in place
C27_Witness ==
    /\ last.op = "invalidate" /\ last.note = "valid"
    /\ \E k \in Keys \ {last.key} :
          /\ is_valid(k)
          /\ load_index.entries[k].path \notin clashed
          /\ get(k) # <<>>

\* C5: read_table and read_dict never raise, and return None when the key is
\* missing from the index, its entry has expired, its file is missing on disk
\* or its file cannot be parsed.
C5_ReadMissIsNone ==
    IsRead =>
        /\ ~ret.raised
        /\ (KeyMissing \/ KeyExpired \/ FileMissing \/ FileCorrupt) => ret = ReturnedNone

\* a read of a live entry whose file was truncated has returned None
C5_Witness ==
    /\ IsRead
    /\ FileCorrupt
    /\ Fresh(Entries[last.key])
    /\ ret = ReturnedNone

\* C6: is_valid(key) is true exactly when the index holds an entry for the key
\* and now < cached_at + ttl_days (strict); when the inequality fails, is_valid
\* is false and read_table / read_dict return None.
C6_ValidIffWithinTtl ==
    /\ last.op = "is_valid" =>
          ret = Returned(last.key \in DOMAIN Entries /\ Fresh(Entries[last.key]))
    /\ (IsRead /\ KeyExpired) => ret = ReturnedNone

\* is_valid has answered False for an entry exactly ttl_days old
C6_Witness ==
    /\ last.op = "is_valid"
    /\ last.key \in DOMAIN Entries
    /\ now = Entries[last.key].cached_at[2] + Entries[last.key].ttl_days
    /\ ret = Returned(FALSE)

\* C7: after invalidate(key) on a key present in the index, the key has no
\* entry in the in-memory index nor in the index file, its backing file no
\* longer exists, and is_valid and the reads of the key miss; expired or not.
C7_InvalidateRemoves ==
    (last.op = "invalidate" /\ last.path # "-") =>
        /\ last.key \notin DOMAIN Entries
        /\ diskIndex # <<>> /\ last.key \notin DOMAIN DiskEntries
        /\ last.path \notin DOMAIN files
        /\ ~is_valid(last.key)
        /\ get(last.key) = <<>>
        /\ last.key \in TableKeys => read_table(last.key) = ReturnedNone
        /\ last.key \in DictKeys => read_dict(last.key) = ReturnedNone

\* invalidate has removed an entry that had already expired
C7_Witness ==
    /\ last.op = "invalidate"
    /\ last.note = "expired"
    /\ last.path \notin DOMAIN files
    /\ last.key \notin DOMAIN DiskEntries

\* C8: after invalidate_all() the index is empty, so no key is valid or
\* readable, every sub-directory of the cache root is gone, and the index
\* file itself still exists.
C8_InvalidateAllClears ==
    last.op = "invalidate_all" =>
        /\ Entries = EmptyMap
        /\ diskIndex # <<>> /\ DiskEntries = EmptyMap
        /\ \A k \in Keys : ~is_valid(k) /\ get(k) = <<>>
        /\ \A k \in TableKeys : read_table(k) = ReturnedNone
        /\ \A k \in DictKeys : read_dict(k) = ReturnedNone
        /\ dirs = {}
        /\ files = EmptyMap

\* invalidate_all has run on a cache that held entries and directories
C8_Witness ==
    /\ last.op = "invalidate_all"
    /\ last.note = "nonempty"
    /\ dirs = {}
    /\ diskIndex # <<>>

(***************************************************************************)
(* Claims on the table round trip (specification SpecRT).                  *)
(***************************************************************************)
\* read_table has just run, after a write_table of rtRows that has not expired
ReadAfterWrite ==
    /\ last.op = "read_table"
    /\ rtWritten # <<>>
    /\ now < rtWritten[1].at + rtWritten[1].ttl_days

\* C9 as stated: for any table of rows, write_table then read_table of the
\* same key before expiry returns rows equal to the rows written.
C9_AnyTableRoundTrips == ReadAfterWrite => ret = Returned(rtRows)

ColumnOf(rows, c) == [i \in 1..Len(rows) |-> rows[i][c]]

\* a column the CSV file carries without loss
PlainColumn(col) ==
    /\ (\E i \in 1..Len(col) : col[i][1] = "int") => \A i \in 1..Len(col) : col[i][1] = "int"
    /\ \A i \in 1..Len(col) :
          col[i][1] = "str" =>
              /\ col[i][2] # <<>>
              /\ Strip(col[i][2]) # <<>>
              /\ Strip(col[i][2])[1] \notin {"{", "[", "\""}
    /\ \E i \in 1..Len(col) : col[i][1] # "str" \/ ~IsIntText(col[i][2])

PlainTable(rows) == rows # <<>> /\ \A c \in Cols : PlainColumn(ColumnOf(rows, c))

\* C9 as amended: the round trip returns equal rows for every non-empty table
\* in which ints stand only in all-int columns, no string cell is empty or
\* starts with {, [ or ", and no column holds number-like strings only; None
\* and nested dict/list cells round-trip.
C9_PlainTableRoundTrips == (ReadAfterWrite /\ PlainTable(rtRows)) => ret = Returned(rtRows)

\* a two-row table with a nested list and a None cell has been read back equal
C9_Witness ==
    /\ ReadAfterWrite
    /\ Len(rtRows) = 2
    /\ rtRows[1]["v"] = PList(<<PStr(<<"t">>)>>)
    /\ rtRows[2]["v"] = PNone
    /\ ret = Returned(rtRows)

(***************************************************************************)
(* SpecAW: the temp-file protocol of StaticCache._atomic_write_text and of  *)
(* AlphaCache._write_json / _write_parquet, one system call per step, under *)
(* write_table, write_dict, save_alpha and save_index.                      *)
(***************************************************************************)
MaxWrites == 2

T2 == << [v |-> PStr(<<"a">>)], [v |-> PStr(<<"a">>)] >>
AwTables == {<<>>, T1, T2}
AwDicts == {D1}

Ids == {"X", "Y", "Z"}
AwIds == {"X"}

Base(p) == IF p = "a/x.csv" THEN "x.csv" ELSE "y.json"
PayloadName(p) == FileName(Parent(p), Base(p))
IndexName == FileName(".", "cache_index.json")
MetaName(p) == FileName(Parent(p), ".meta.json")
alpha_dir(id) == CASE id = "X" -> "alphas/X" [] id = "Y" -> "alphas/Y" [] OTHER -> "alphas/Z"
ParquetName(id) == FileName(alpha_dir(id), "daily-pnl.parquet")
AlphaIndexName == FileName("alpha_cache", "index.json")

\* tempfile.mkstemp(dir=path.parent): the names it can hand out in a directory
TmpSerials == {1, 2}
TmpNames(dir) == {<<dir, "tmp", i>> : i \in TmpSerials}
IsTmp(n) == n[2] = "tmp"
TmpFiles == {n \in DOMAIN fsys : IsTmp(n)}

\* what a file holds: nothing yet, a proper prefix of an object's serialization, all of it
Created == [obj |-> <<>>, state |-> "empty"]
Partial(o) == [obj |-> <<o>>, state |-> "partial"]
Whole(o) == [obj |-> <<o>>, state |-> "whole"]
Content(n) == IF n \in DOMAIN fsys THEN <<fsys[n]>> ELSE <<>>
Readable(n) == n \in DOMAIN fsys /\ fsys[n].state = "whole"

\* a daily-pnl record set as _fetch_daily_returns frames it: one column named by the id
DailyPnl(id) ==
    CASE id = "X" -> << <<1, 1>>, <<2, 2>> >>
      [] id = "Y" -> << <<1, 2>>, <<2, 1>> >>
      [] OTHER    -> << <<2, 1>> >>
Frame(id, rows) == [col |-> id, rows |-> rows]
AwFrames(id) == {Frame(id, DailyPnl(id)), Frame(id, <<>>)}

\* dataclasses.asdict(AlphaIndexEntry(...)): the fields the engine reads back
AlphaIndexEntry(region, pp, sharpe) == [region |-> region, is_power_pool |-> pp, sharpe |-> sharpe]
AwEntries == {AlphaIndexEntry("USA", FALSE, 1)}

EmptyAlphaIndex == [version |-> INDEX_VERSION, updated_at |-> isoformat(now), alphas |-> EmptyMap]

\* StaticCache._load_index against fsys
aw_load_index ==
    IF awIndex # <<>> THEN awIndex[1]
    ELSE IF Readable(IndexName) /\ fsys[IndexName].obj[1].version = INDEX_VERSION
         THEN fsys[IndexName].obj[1]
         ELSE EmptyIndex

\* StaticCache._load_meta against fsys
aw_load_meta(p) == IF Readable(MetaName(p)) THEN fsys[MetaName(p)].obj[1] ELSE EmptyMap

\* AlphaCache.index against fsys
aw_alpha_index ==
    IF awAlphaIndex # <<>> THEN awAlphaIndex[1]
    ELSE IF Readable(AlphaIndexName) /\ fsys[AlphaIndexName].obj[1].version = INDEX_VERSION
         THEN fsys[AlphaIndexName].obj[1]
         ELSE EmptyAlphaIndex

\* a new call can be made: none is in flight (a crashed process has been restarted)
AwCanCall == awCall.phase \in {"returned", "raised", "crashed"}

\* entry of one temp-file write: remember what the destination holds
AwBegin(op, stage, dest, o, k, p, ttl, rc) ==
    awCall' = [op |-> op, phase |-> "begin", stage |-> stage, dest |-> dest, tmp |-> NoName,
               key |-> k, path |-> p, ttl |-> ttl, rc |-> rc, obj |-> <<o>>,
               old |-> Content(dest), replaced |-> FALSE, n |-> awCall.n + 1]

aw_write_table(k, rows, ttl, p) ==
    /\ AwCanCall /\ awCall.n < MaxWrites
    /\ IF rows = <<>>
       THEN awCall' = [AwIdleCall EXCEPT !.op = "write_table", !.n = awCall.n + 1]
       ELSE AwBegin("write_table", "payload", PayloadName(p), CsvFile(to_csv(rows)),
                    k, p, ttl, <<Len(rows)>>)
    /\ UNCHANGED <<fsys, awIndex, awAlphaIndex>>

\* mutant of aw_write_dict: the call goes to the index without writing the payload
aw_write_dict_index_first(k, data, ttl, p) ==
    /\ AwCanCall /\ awCall.n < MaxWrites
    /\ AwBegin("write_dict", "index", IndexName,
               [aw_load_index EXCEPT !.entries =
                   With(@, k, [cached_at |-> isoformat(now), ttl_days |-> ttl, path |-> p,
                               record_count |-> <<>>])],
               k, p, ttl, <<>>)
    /\ UNCHANGED <<fsys, awIndex, awAlphaIndex>>

aw_write_dict(k, data, ttl, p) ==
    /\ AwCanCall /\ awCall.n < MaxWrites
    /\ AwBegin("write_dict", "payload", PayloadName(p), JsonFile(Dumps(data)), k, p, ttl, <<>>)
    /\ UNCHANGED <<fsys, awIndex, awAlphaIndex>>

aw_save_alpha(id, daily_returns) ==
    /\ AwCanCall /\ awCall.n < MaxWrites
    /\ AwBegin("save_alpha", "payload", ParquetName(id), daily_returns, id, "-", 0, <<>>)
    /\ UNCHANGED <<fsys, awIndex, awAlphaIndex>>

aw_register_alpha(id, entry) ==
    /\ AwCanCall
    /\ awAlphaIndex' = <<[aw_alpha_index EXCEPT !.alphas = With(@, id, entry)]>>
    /\ awCall' = [AwIdleCall EXCEPT !.op = "register_alpha", !.n = awCall.n]
    /\ UNCHANGED <<fsys, awIndex>>

aw_save_index ==
    /\ AwCanCall /\ awCall.n < MaxWrites
    /\ IF awAlphaIndex = <<>>
       THEN /\ awCall' = [AwIdleCall EXCEPT !.op = "save_index", !.n = awCall.n + 1]
            /\ UNCHANGED awAlphaIndex
       ELSE LET idx == [awAlphaIndex[1] EXCEPT !.updated_at = isoformat(now)]
            IN  /\ awAlphaIndex' = <<idx>>
                /\ AwBegin("save_index", "payload", AlphaIndexName, idx, "-", "-", 0, <<>>)
    /\ UNCHANGED <<fsys, awIndex>>

\* path.parent.mkdir + tempfile.mkstemp: an empty file under a fresh name next to dest
AwMkstemp ==
    /\ awCall.phase = "begin"
    /\ LET free == TmpNames(awCall.dest[1]) \ DOMAIN fsys
           t == CHOOSE x \in free : \A y \in free : x[3] <= y[3]
       IN  /\ free # {}
           /\ fsys' = With(fsys, t, Created)
           /\ awCall' = [awCall EXCEPT !.phase = "open", !.tmp = t]
    /\ UNCHANGED <<awIndex, awAlphaIndex>>

\* mutant of aw_write_target: the bytes go straight into the destination
aw_write_target_dest == awCall.dest

\* f.write / json.dump / df.to_parquet: the file the bytes go to
aw_write_target == awCall.tmp

\* one write system call: some more of the serialization, or all that is left
AwWrite ==
    /\ awCall.phase = "open"
    /\ LET t == aw_write_target
           cur == IF t \in DOMAIN fsys THEN fsys[t].state ELSE "empty"
       IN  /\ cur # "whole"
           /\ \E c \in {Partial(awCall.obj[1]), Whole(awCall.obj[1])} :
                 /\ cur = "partial" => c.state = "whole"
                 /\ fsys' = With(fsys, t, c)
    /\ UNCHANGED <<awCall, awIndex, awAlphaIndex>>

\* os.replace(tmp, path), reached once the writes returned
AwReplace ==
    /\ awCall.phase = "open"
    /\ fsys[awCall.tmp].state = "whole"
    /\ fsys' = [n \in (DOMAIN fsys \ {awCall.tmp}) \cup {awCall.dest} |->
                   IF n = awCall.dest THEN fsys[awCall.tmp] ELSE fsys[n]]
    /\ awCall' = [awCall EXCEPT !.phase = "done", !.tmp = NoName, !.replaced = TRUE]
    /\ UNCHANGED <<awIndex, awAlphaIndex>>

\* an exception in mkstemp, in a write or in os.replace: unlink the temp file
\* (an OSError of the unlink is swallowed) and re-raise out of the operation
AwFail ==
    /\ awCall.phase \in {"begin", "open"}
    /\ fsys' \in {Without(fsys, awCall.tmp), fsys}
    /\ awCall' = [awCall EXCEPT !.phase = "raised", !.tmp = NoName]
    /\ UNCHANGED <<awIndex, awAlphaIndex>>

\* after a replace: the next file of the operation, or its return
AwNext ==
    /\ awCall.phase = "done"
    /\ LET entry_data == [cached_at |-> isoformat(now), ttl_days |-> awCall.ttl,
                          path |-> awCall.path, record_count |-> awCall.rc]
           meta_entry == [cached_at |-> isoformat(now), ttl_days |-> awCall.ttl,
                          record_count |-> awCall.rc]
           idx == [aw_load_index EXCEPT !.entries = With(@, awCall.key, entry_data)]
           new_meta == With(aw_load_meta(awCall.path), Base(awCall.path), meta_entry)
       IN  IF awCall.op \in {"write_table", "write_dict"} /\ awCall.stage = "payload"
           THEN /\ awIndex' = <<idx>>
                /\ awCall' = [awCall EXCEPT !.phase = "begin", !.stage = "index",
                                 !.dest = IndexName, !.obj = <<idx>>,
                                 !.old = Content(IndexName), !.replaced = FALSE]
           ELSE IF awCall.op \in {"write_table", "write_dict"} /\ awCall.stage = "index"
           THEN /\ awCall' = [awCall EXCEPT !.phase = "begin", !.stage = "meta",
                                 !.dest = MetaName(awCall.path), !.obj = <<new_meta>>,
                                 !.old = Content(MetaName(awCall.path)),
                                 !.replaced = FALSE]
                /\ UNCHANGED awIndex
           ELSE /\ awCall' = [awCall EXCEPT !.phase = "returned"]
                /\ UNCHANGED awIndex
    /\ UNCHANGED <<fsys, awAlphaIndex>>

\* the process is killed: its memory is gone, its temp file stays
AwCrash ==
    /\ awCall.phase \in {"begin", "open", "done"}
    /\ awCall' = [awCall EXCEPT !.phase = "crashed", !.tmp = NoName]
    /\ awIndex' = <<>>
    /\ awAlphaIndex' = <<>>
    /\ UNCHANGED fsys

AwInit == CacheInit /\ RtIdle /\ AwIdle /\ SyncIdle /\ CalcIdle

AwNextStep ==
    \/ \E rows \in AwTables : aw_write_table("t1", rows, 1, "a/x.csv") /\ UNCHANGED notAw
    \/ \E data \in AwDicts : aw_write_dict("j1", data, 1, "b/y.json") /\ UNCHANGED notAw
    \/ \E id \in AwIds : \E f \in AwFrames(id) : aw_save_alpha(id, f) /\ UNCHANGED notAw
    \/ \E id \in AwIds : \E e \in AwEntries : aw_register_alpha(id, e) /\ UNCHANGED notAw
    \/ aw_save_index /\ UNCHANGED notAw
    \/ AwMkstemp /\ UNCHANGED notAw
    \/ AwWrite /\ UNCHANGED notAw
    \/ AwReplace /\ UNCHANGED notAw
    \/ AwFail /\ UNCHANGED notAw
    \/ AwNext /\ UNCHANGED notAw
    \/ AwCrash /\ UNCHANGED notAw

SpecAW == AwInit /\ [][AwNextStep]_vars

(***************************************************************************)
(* Claims checked on SpecAW.                                               *)
(***************************************************************************)
Dests == {n \in DOMAIN fsys : ~IsTmp(n)}

\* C1: a reader of a destination path never finds a partial payload: every
\* destination file holds a complete serialization, and while a write to a
\* destination is under way, or has failed or been interrupted before its
\* rename, the destination holds what it held when the write began (or does
\* not exist if it did not), and after the rename exactly the new object.
C1_DestinationNeverPartial ==
    /\ \A n \in Dests : fsys[n].state = "whole"
    /\ awCall.dest # NoName =>
          IF awCall.replaced
          THEN Content(awCall.dest) = <<Whole(awCall.obj[1])>>
          ELSE Content(awCall.dest) = awCall.old

\* C1 witness: a write was interrupted with half of the new payload in its
\* temp file while the destination still holds a different, complete payload
C1_Witness ==
    /\ awCall.phase = "crashed"
    /\ ~awCall.replaced
    /\ awCall.old # <<>>
    /\ awCall.old[1].obj # awCall.obj
    /\ Content(awCall.dest) = awCall.old
    /\ \E t \in TmpFiles : t[1] = awCall.dest[1] /\ fsys[t] = Partial(awCall.obj[1])

\* cache_index.json and a directory's .meta.json as they are on disk
AwDiskIndex == IF Readable(IndexName) THEN fsys[IndexName].obj[1] ELSE EmptyIndex
AwDiskMeta(p) == IF Readable(MetaName(p)) THEN fsys[MetaName(p)].obj[1] ELSE EmptyMap

\* the mirror of an index entry in .meta.json
Mirror(e) == [cached_at |-> e.cached_at, ttl_days |-> e.ttl_days, record_count |-> e.record_count]

\* the payload an index entry refers to is completely in place, with the
\* number of records the entry gives
PayloadInPlace(e) ==
    /\ Readable(PayloadName(e.path))
    /\ e.record_count # <<>> => Len(fsys[PayloadName(e.path)].obj[1].lines) = e.record_count[1]

AllPayloadsInPlace ==
    \A k \in DOMAIN AwDiskIndex.entries : PayloadInPlace(AwDiskIndex.entries[k])

AllPayloadsReadable ==
    \A k \in DOMAIN AwDiskIndex.entries : Readable(PayloadName(AwDiskIndex.entries[k].path))

\* the keys whose entry in the index on disk describes another payload than
\* the one at its path
Outdated == {k \in DOMAIN AwDiskIndex.entries : ~PayloadInPlace(AwDiskIndex.entries[k])}

\* the entry of the running call's key in the index on disk describes the
\* payload at its path
WrittenEntryInPlace ==
    /\ awCall.key \in DOMAIN AwDiskIndex.entries
    /\ AwDiskIndex.entries[awCall.key].path = awCall.path
    /\ PayloadInPlace(AwDiskIndex.entries[awCall.key])

\* the claim as stated: the order of the three renames, and no other
\* inconsistency than a lagging metadata mirror, so that every entry of the
\* index on disk describes the payload at its path in every state
C21_OnlyMirrorLagsBehind ==
    [][/\ AwDiskIndex' # AwDiskIndex =>
              /\ awCall.stage = "index" /\ awCall'.replaced
              /\ awCall.key \in DOMAIN AwDiskIndex'.entries
              /\ AwDiskIndex'.entries[awCall.key].path = awCall.path
       /\ AllPayloadsInPlace'
       /\ \A p \in Paths :
              AwDiskMeta(p)' # AwDiskMeta(p) =>
                  /\ awCall.stage = "meta" /\ awCall'.replaced /\ awCall.path = p
                  /\ awCall.key \in DOMAIN AwDiskIndex.entries
                  /\ AwDiskIndex' = AwDiskIndex
                  /\ AwDiskMeta(p)' = With(AwDiskMeta(p), Base(p),
                                           Mirror(AwDiskIndex.entries[awCall.key]))]_vars

\* C21: a StaticCache write replaces the payload file, then the central index,
\* then the directory metadata, each by one rename: the index file changes only
\* by the rename of the index step, and the entry it brings describes a payload
\* that is completely in place; a metadata file changes only by the rename of
\* the metadata step, to the mirror of the entry the index on disk already
\* holds.  Every entry of the index on disk refers to a readable payload file
\* in every state, a crash included; an entry comes to describe another
\* payload than the one at its path only by the payload rename of a later
\* write to that path, until that write's index rename; its mirror in the
\* metadata is that of the entry, that of an earlier write, or missing.
C21_PayloadThenIndexThenMeta ==
    [][/\ AwDiskIndex' # AwDiskIndex =>
              /\ awCall.stage = "index" /\ awCall'.replaced
              /\ WrittenEntryInPlace'
       /\ AllPayloadsReadable'
       /\ \A k \in Outdated' \ Outdated :
              /\ awCall.stage = "payload" /\ awCall'.replaced
              /\ AwDiskIndex.entries[k].path = awCall.path
       /\ \A p \in Paths :
              AwDiskMeta(p)' # AwDiskMeta(p) =>
                  /\ awCall.stage = "meta" /\ awCall'.replaced /\ awCall.path = p
                  /\ awCall.key \in DOMAIN AwDiskIndex.entries
                  /\ AwDiskIndex' = AwDiskIndex
                  /\ AwDiskMeta(p)' = With(AwDiskMeta(p), Base(p),
                                           Mirror(AwDiskIndex.entries[awCall.key]))]_vars

\* a second write of a key was interrupted between its index rename and its
\* metadata rename: the index entry is the new one, over the new payload, and
\* the metadata still mirrors the first write
C21_Witness ==
    /\ awCall.phase = "crashed" /\ awCall.stage = "meta" /\ ~awCall.replaced
    /\ awCall.key \in DOMAIN AwDiskIndex.entries
    /\ PayloadInPlace(AwDiskIndex.entries[awCall.key])
    /\ Base(awCall.path) \in DOMAIN AwDiskMeta(awCall.path)
    /\ AwDiskMeta(awCall.path)[Base(awCall.path)] # Mirror(AwDiskIndex.entries[awCall.key])

(***************************************************************************)
(* SpecSync: check_local_correlation and batch_check_local_correlation with *)
(* _sync_baseline and _fetch_all_os_alphas, one step per awaited operation, *)
(* and AlphaCache.fetch_correlation called on its own.                      *)
(***************************************************************************)
\* stands for limit = 100 of _fetch_all_os_alphas
PageLimit == 2

\* order="-dateSubmitted": the platform lists the OS alphas newest first
RosterOrder == <<"Z", "Y", "X">>
InRoster(id) == id \in roster
RosterSeq == SelectSeq(RosterOrder, InRoster)
Range(seq) == {seq[j] : j \in 1..Len(seq)}
Min(a, b) == IF a <= b THEN a ELSE b

\* what the platform reports for an OS alpha (AlphaDetailsResponse)
RemoteAlpha(id) ==
    CASE id = "X" -> AlphaIndexEntry("USA", FALSE, 2)
      [] id = "Y" -> AlphaIndexEntry("USA", TRUE, 1)
      [] OTHER    -> AlphaIndexEntry("EUR", FALSE, 1)

\* check_types arguments: None (<<>>) or a list, kept as its set of members
CheckTypes == {<<>>, <<{"SELF", "POWER_POOL"}>>, <<{"PROD"}>>, <<{"SELF", "PROD"}>>}
CorrelationTypes == {"SELF", "POWER_POOL", "PROD"}
Types(c) == IF c.check_types = <<>> THEN {"SELF"} ELSE c.check_types[1]
Kinds == {"single", "batch"}
Candidates(kind) == IF kind = "single" THEN <<"A">> ELSE <<"A", "B">>
CandidateRegion == "USA"

IndexIds(ix) == IF ix = <<>> THEN {} ELSE DOMAIN ix[1].alphas
Restrict(f, keep) == [x \in DOMAIN f \cap keep |-> f[x]]

\* AlphaCache.load_index: the index it returns and keeps in _index, <<>> for None
alpha_load_index ==
    IF aIndexFile # <<>> /\ aIndexFile[1].version = INDEX_VERSION THEN aIndexFile ELSE <<>>

\* AlphaCache.index with _index = mem: loaded or created on first use
alpha_index(mem) ==
    IF mem # <<>> THEN mem[1]
    ELSE IF alpha_load_index # <<>> THEN alpha_load_index[1]
    ELSE EmptyAlphaIndex

\* AlphaCache.load_daily_returns: one column per id whose parquet file exists
load_daily_returns(ids) == [id \in {x \in ids : x \in DOMAIN aSeries} |-> aSeries[id].rows]

\* mutant of all_returns: the frame is loaded again at every access
all_returns_uncached(mem) == load_daily_returns(DOMAIN alpha_index(mem).alphas)

\* AlphaCache.all_returns with _index = mem
all_returns(mem) ==
    IF aAllReturns # <<>> THEN aAllReturns[1]
    ELSE load_daily_returns(DOMAIN alpha_index(mem).alphas)

CORR_TYPE_TO_TAG(t) == IF t = "SELF" THEN "SelfCorr" ELSE "PPAC"

\* AlphaCache._group_alpha_ids_by_region(tag, region)[region]
group_alpha_ids_any_region(ix, tag, region) ==
    {id \in DOMAIN ix.alphas :
        LET raw == ix.alphas[id]
        IN  /\ raw.region # ""
            /\ tag = "PPAC" => raw.is_power_pool
            /\ tag = "SelfCorr" => ~raw.is_power_pool}

group_alpha_ids_by_region(ix, tag, region) ==
    {id \in DOMAIN ix.alphas :
        LET raw == ix.alphas[id]
        IN  /\ raw.region # ""
            /\ tag = "PPAC" => raw.is_power_pool
            /\ tag = "SelfCorr" => ~raw.is_power_pool
            /\ region # "" => raw.region = region}

\* fetch_correlation: the baseline columns the candidate is compared against
baseline_alpha_ids(mem, t, region) ==
    LET cached_returns == all_returns(mem)
    IN  IF DOMAIN cached_returns = {} \/ region = "" THEN {}
        ELSE group_alpha_ids_by_region(alpha_index(mem), CORR_TYPE_TO_TAG(t), region)
                \cap DOMAIN cached_returns

Idle == call.pc \in {"idle", "returned", "raised"}

\* the platform's roster changes between calls
RemoteChange(r) ==
    /\ Idle
    /\ r # roster
    /\ roster' = r
    /\ UNCHANGED <<alphaCacheVars, call, hist>>

StartHist == [NoHist EXCEPT !.before = DiskNow, !.snap = DiskNow, !.mem = aMem,
                            !.memo = aAllReturns]

\* a call of check_local_correlation (single) or batch_check_local_correlation
CheckLocalCorrelation(kind, ct) ==
    /\ Idle
    /\ call' = [NoCallYet EXCEPT !.pc = "auth", !.kind = kind, !.check_types = ct]
    /\ hist' = StartHist
    /\ UNCHANGED <<roster, alphaCacheVars>>

\* await self.ensure_authenticated(): returns, or raises when it cannot log in
EnsureAuthenticated ==
    /\ call.pc = "auth"
    /\ \/ /\ call' = [call EXCEPT !.pc = "validate"]
          /\ hist' = [hist EXCEPT !.authenticated = TRUE]
       \/ /\ call' = [call EXCEPT !.pc = "raised", !.error = "AuthError"]
          /\ UNCHANGED hist
    /\ UNCHANGED <<roster, alphaCacheVars>>

\* mutant of rejects: no check type is refused
rejects_nothing(types) == FALSE

\* CorrelationType.PROD in check_types
rejects(types) == "PROD" \in types

\* the check of the types, then AlphaCache() and the start of _sync_baseline
\* (cache.load_index()), up to the first roster request
EnterSync ==
    /\ call.pc = "validate"
    /\ IF rejects(Types(call))
       THEN /\ call' = [call EXCEPT !.pc = "raised", !.error = "ValueError"]
            /\ UNCHANGED <<alphaCacheVars, hist>>
       ELSE LET loaded == alpha_load_index
            IN  /\ aDirs' = aDirs \cup {"."}
                /\ aMem' = loaded
                /\ aAllReturns' = <<>>
                /\ call' = [call EXCEPT !.pc = "roster", !.loaded = loaded,
                                        !.cached_ids = IndexIds(loaded)]
                /\ hist' = [hist EXCEPT !.snap = [DiskNow EXCEPT !.dirs = aDirs \cup {"."}]]
                /\ UNCHANGED <<aIndexFile, aSeries>>
    /\ UNCHANGED roster

\* mutant of on_roster_error: the pages fetched so far pass for the roster
on_roster_error_swallowed(c) == [c EXCEPT !.pc = "reconcile"]

\* get_user_alphas raises inside _fetch_all_os_alphas: nothing catches it
on_roster_error(c) == [c EXCEPT !.pc = "raised", !.error = "RosterError"]

\* one get_user_alphas(stage="OS", limit, offset) of _fetch_all_os_alphas
\* mutant of loop_ends: the loop stops after its first page
loop_ends_at_once(results, fetched, total) == TRUE

\* the while loop of _fetch_all_os_alphas ends after this page: a short page
\* breaks it, and so does len(fetched) reaching total
loop_ends(results, fetched, total) == Len(results) < PageLimit \/ ~(Len(fetched) < total)

RosterPage ==
    /\ call.pc = "roster"
    /\ \/ /\ call' = on_roster_error(call)
          /\ hist' = [hist EXCEPT !.pages = @ + 1, !.roster_failed = TRUE]
       \/ LET results == SubSeq(RosterSeq, call.offset + 1,
                                Min(call.offset + PageLimit, Len(RosterSeq)))
              total == IF call.total = <<>> THEN Len(RosterSeq) ELSE call.total[1]
              fetched == call.fetched \o results
              done == loop_ends(results, fetched, total)
          IN  /\ call' = [call EXCEPT
                            !.total = <<total>>,
                            !.offset = IF Len(results) < PageLimit THEN @ ELSE @ + PageLimit,
                            !.fetched = IF done THEN SubSeq(fetched, 1, Min(total, Len(fetched)))
                                        ELSE fetched,
                            !.pc = IF done THEN "reconcile" ELSE "roster"]
              /\ hist' = [hist EXCEPT !.pages = @ + 1]
    /\ UNCHANGED <<roster, alphaCacheVars>>

\* mutant of is_new: no alpha of the roster is ever downloaded
is_new_never(id, cached_ids) == FALSE

\* mutant of is_new: every alpha of the roster is downloaded again
is_new_always(id, cached_ids) == TRUE

\* a.id not in cached_ids
is_new(id, cached_ids) == id \notin cached_ids

\* _sync_baseline between the roster and the first new alpha: evict the stale
\* ids, list the new ones, return at once when there is nothing to do
Reconcile ==
    /\ call.pc = "reconcile"
    /\ LET os_alphas == call.fetched
           current_ids == Range(os_alphas)
           stale_ids == call.cached_ids \ current_ids
           IsNew(id) == is_new(id, call.cached_ids)
           new_alphas == SelectSeq(os_alphas, IsNew)
           ix == alpha_index(aMem)
       IN  /\ aMem' = IF stale_ids # {}
                      THEN <<[ix EXCEPT !.alphas = Restrict(@, DOMAIN @ \ stale_ids)]>>
                      ELSE IF new_alphas = <<>> THEN <<ix>> ELSE aMem
           /\ aDirs' = aDirs \ stale_ids
           /\ aSeries' = Restrict(aSeries, DOMAIN aSeries \ stale_ids)
           /\ call' = [call EXCEPT !.stale_ids = stale_ids, !.new_alphas = new_alphas,
                                   !.pc = IF new_alphas = <<>> /\ stale_ids = {}
                                          THEN "synced" ELSE "entities"]
    /\ UNCHANGED <<roster, aIndexFile, aAllReturns, hist>>

\* mutant of after_entity_failure: the exception leaves the loop
after_entity_failure_abort(c) == [c EXCEPT !.pc = "raised", !.error = "EntityError"]

\* except Exception: log, go on with the next new alpha
after_entity_failure(c) == [c EXCEPT !.i = @ + 1]

\* one turn of the loop over new_alphas: _fetch_daily_returns, save_alpha,
\* register_alpha; the fetch or the save may raise
SyncEntity ==
    /\ call.pc = "entities"
    /\ call.i <= Len(call.new_alphas)
    /\ LET id == call.new_alphas[call.i]
       IN  \/ /\ aDirs' = aDirs \cup {".", id}
              /\ aSeries' = With(aSeries, id, Frame(id, DailyPnl(id)))
              /\ aMem' = <<[alpha_index(aMem) EXCEPT !.alphas = With(@, id, RemoteAlpha(id))]>>
              /\ call' = [call EXCEPT !.i = @ + 1, !.synced = @ + 1]
              /\ hist' = [hist EXCEPT !.fetched = @ \cup {id}]
           \/ /\ call' = after_entity_failure(call)
              /\ hist' = [hist EXCEPT !.failed = @ \cup {id}]
              /\ UNCHANGED <<aDirs, aSeries, aMem>>
           \/ /\ call' = after_entity_failure(call)
              /\ hist' = [hist EXCEPT !.fetched = @ \cup {id}, !.failed = @ \cup {id}]
              /\ aDirs' \in {aDirs, aDirs \cup {".", id}}
              /\ UNCHANGED <<aSeries, aMem>>
    /\ UNCHANGED <<roster, aIndexFile, aAllReturns>>

\* mutant of needs_save: evictions alone do not save the index
needs_save_synced_only(synced, stale_ids) == synced > 0

\* mutant of needs_save: the index is written at the end of every sync
needs_save_always(synced, stale_ids) == TRUE

\* if synced > 0 or stale_ids
needs_save(synced, stale_ids) == synced > 0 \/ stale_ids # {}

\* after the loop: cache.save_index() when something changed, return cache.index
SyncFinish ==
    /\ call.pc = "entities"
    /\ call.i > Len(call.new_alphas)
    /\ IF needs_save(call.synced, call.stale_ids) /\ aMem # <<>>
       THEN LET ix == [aMem[1] EXCEPT !.updated_at = isoformat(now)]
            IN  /\ aMem' = <<ix>>
                /\ aIndexFile' = <<ix>>
                /\ aDirs' = aDirs \cup {"."}
                /\ hist' = [hist EXCEPT !.saves = @ + 1]
       ELSE /\ aMem' = <<alpha_index(aMem)>>
            /\ UNCHANGED <<aIndexFile, aDirs, hist>>
    /\ call' = [call EXCEPT !.pc = "synced"]
    /\ UNCHANGED <<roster, aSeries, aAllReturns>>

\* the call ends: the locals of _sync_baseline are gone
Ended(c, pc, error) == [NoCallYet EXCEPT !.pc = pc, !.error = error, !.kind = c.kind,
                                         !.check_types = c.check_types]

\* after the sync: the candidates' series and details are fetched, then
\* _build_check_response runs fetch_correlation for every check type
CandidateFetch ==
    /\ call.pc = "synced"
    /\ hist' = [NoHist EXCEPT !.authenticated = TRUE, !.before = hist.before,
                              !.pages = hist.pages, !.cand = Len(Candidates(call.kind))]
    /\ \/ /\ call' = Ended(call, "raised", "CandidateError")
          /\ UNCHANGED <<aMem, aAllReturns>>
       \/ IF "PROD" \in Types(call)
          THEN /\ call' = Ended(call, "raised", "ValueError")
               /\ UNCHANGED <<aMem, aAllReturns>>
          ELSE /\ aMem' = <<alpha_index(aMem)>>
               /\ aAllReturns' = <<all_returns(aMem)>>
               /\ call' = [Ended(call, "returned", "-") EXCEPT
                              !.result = <<[t \in Types(call) |->
                                  baseline_alpha_ids(aMem, t, CandidateRegion)]>>]
    /\ UNCHANGED <<roster, aIndexFile, aDirs, aSeries>>

\* AlphaCache.fetch_correlation called on the cache object at hand
FetchCorrelation(t) ==
    /\ Idle
    /\ hist' = StartHist
    /\ IF t = "PROD"
       THEN /\ call' = [NoCallYet EXCEPT !.pc = "raised", !.kind = "fetch_correlation",
                                         !.check_types = <<{t}>>, !.error = "ValueError"]
            /\ UNCHANGED <<aMem, aAllReturns>>
       ELSE /\ aMem' = <<alpha_index(aMem)>>
            /\ aAllReturns' = <<all_returns(aMem)>>
            /\ call' = [NoCallYet EXCEPT !.pc = "returned", !.kind = "fetch_correlation",
                           !.check_types = <<{t}>>,
                           !.result = <<[x \in {t} |->
                               baseline_alpha_ids(aMem, t, CandidateRegion)]>>]
    /\ UNCHANGED <<roster, aIndexFile, aDirs, aSeries>>

SyncInit == CacheInit /\ RtIdle /\ AwIdle /\ SyncIdle /\ CalcIdle

SyncNext ==
    \/ \E r \in SUBSET Ids : RemoteChange(r) /\ UNCHANGED notSync
    \/ \E kind \in Kinds : \E ct \in CheckTypes :
          CheckLocalCorrelation(kind, ct) /\ UNCHANGED notSync
    \/ EnsureAuthenticated /\ UNCHANGED notSync
    \/ EnterSync /\ UNCHANGED notSync
    \/ RosterPage /\ UNCHANGED notSync
    \/ Reconcile /\ UNCHANGED notSync
    \/ SyncEntity /\ UNCHANGED notSync
    \/ SyncFinish /\ UNCHANGED notSync
    \/ CandidateFetch /\ UNCHANGED notSync
    \/ \E t \in CorrelationTypes : FetchCorrelation(t) /\ UNCHANGED notSync

SpecSync == SyncInit /\ [][SyncNext]_vars

(***************************************************************************)
(* Claims checked on SpecSync.                                             *)
(***************************************************************************)
NewIds == roster \ call.cached_ids
EvictedIds == call.cached_ids \ roster

\* C2: once _sync_baseline has returned with no new alpha failing, the ids of
\* the index in memory and of the index on disk are the ids of the remote
\* roster, and no evicted id (cached, no longer in the roster) has a series
\* directory or file left.
C2_SyncMatchesRoster ==
    (call.pc = "synced" /\ hist.failed = {}) =>
        /\ IndexIds(aMem) = roster
        /\ IndexIds(aIndexFile) = roster
        /\ \A id \in EvictedIds : id \notin aDirs /\ id \notin DOMAIN aSeries

\* C2 witness: a sync that kept one alpha, evicted another whose directory
\* existed, and downloaded a third
C2_Witness ==
    /\ call.pc = "synced"
    /\ hist.failed = {}
    /\ call.cached_ids \cap roster # {}
    /\ NewIds # {}
    /\ \E id \in EvictedIds : id \in hist.snap.dirs /\ id \notin aDirs

\* C3: failures of new alphas never make the sync raise, and when it has
\* returned every new alpha that did not fail has been fetched, has its series
\* on disk and is registered in the index (in memory and on disk), while no
\* failed alpha is registered.
C3_EntityFailuresIsolated ==
    /\ call.pc = "raised" => hist.failed = {}
    /\ call.pc = "synced" =>
          /\ Range(call.new_alphas) = NewIds
          /\ \A id \in NewIds :
                IF id \in hist.failed
                THEN id \notin IndexIds(aMem) /\ id \notin IndexIds(aIndexFile)
                ELSE /\ id \in hist.fetched
                     /\ id \in DOMAIN aSeries
                     /\ aSeries[id] = Frame(id, DailyPnl(id))
                     /\ id \in IndexIds(aMem)
                     /\ aMem[1].alphas[id] = RemoteAlpha(id)
                     /\ id \in IndexIds(aIndexFile)

\* C3 witness: a fetch failed, a save failed, and an alpha processed after a
\* failed one was synced
C3_Witness ==
    /\ call.pc = "synced"
    /\ hist.failed \ hist.fetched # {}
    /\ hist.failed \cap hist.fetched # {}
    /\ \E j, k \in 1..Len(call.new_alphas) :
          /\ j < k
          /\ call.new_alphas[j] \in hist.failed
          /\ call.new_alphas[k] \notin hist.failed

\* C4: when a roster request has raised, the call has raised with that error
\* and the cache is as the sync found it: index file, series directories and
\* files unchanged, no index write, and the index in memory is the loaded one.
C4_RosterFailureLeavesCache ==
    hist.roster_failed =>
        /\ call.pc = "raised"
        /\ call.error = "RosterError"
        /\ DiskNow = hist.snap
        /\ hist.saves = 0
        /\ aMem = call.loaded
        /\ IndexIds(aMem) = IndexIds(hist.snap.index)

\* C4 witness: the second page raised while the cache held alphas and the
\* roster had new ones
C4_Witness ==
    /\ hist.roster_failed
    /\ hist.pages >= 2
    /\ call.cached_ids # {}
    /\ NewIds # {}

\* C10: a check call whose types include PROD never gets past the check of
\* its types: no roster request, no candidate fetch, no index write, disk and
\* cache object untouched, and once authentication has returned the call ends
\* in the input error; fetch_correlation for PROD raises the input error
\* without loading the index or the returns.
C10_ProdRejectedBeforeSync ==
    /\ (call.kind \in Kinds /\ "PROD" \in Types(call)) =>
          /\ call.pc \in {"auth", "validate", "raised"}
          /\ hist.pages = 0 /\ hist.cand = 0 /\ hist.saves = 0
          /\ DiskNow = hist.before
          /\ aMem = hist.mem /\ aAllReturns = hist.memo
          /\ call.pc = "raised" =>
                call.error = IF hist.authenticated THEN "ValueError" ELSE "AuthError"
    /\ (call.kind = "fetch_correlation" /\ "PROD" \in Types(call)) =>
          /\ call.pc = "raised" /\ call.error = "ValueError"
          /\ DiskNow = hist.before
          /\ aMem = hist.mem /\ aAllReturns = hist.memo

\* C10 witness: a batch check with PROD ended in the input error while the
\* cache was out of date with the roster
C10_Witness ==
    /\ call.kind = "batch"
    /\ "PROD" \in Types(call)
    /\ call.pc = "raised"
    /\ call.error = "ValueError"
    /\ IndexIds(aIndexFile) # {}
    /\ roster # IndexIds(aIndexFile)

\* is entry e of a map (a partial function) the same in maps f and g
SameAt(f, g, e) ==
    /\ e \in DOMAIN f <=> e \in DOMAIN g
    /\ e \in DOMAIN f => f[e] = g[e]

InSync == call.pc \in {"roster", "reconcile", "entities", "synced"}

\* C16: during _sync_baseline no remote fetch is issued for an alpha that is
\* both in the cached roster and in the remote roster, and its index entry (in
\* memory and in index.json) and its stored series file stay as the sync
\* found them.
C16_CachedEntitiesNotRefetched ==
    InSync =>
        \A id \in call.cached_ids \cap roster :
            /\ id \notin hist.fetched
            /\ alpha_index(aMem).alphas[id] = hist.snap.index[1].alphas[id]
            /\ aIndexFile[1].alphas[id] = hist.snap.index[1].alphas[id]
            /\ SameAt(aSeries, hist.snap.series, id)
            /\ id \in aDirs <=> id \in hist.snap.dirs

\* C16 witness: a finished sync that downloaded a new alpha, evicted a stale
\* one and left alone a cached one whose series is stored
C16_Witness ==
    /\ call.pc = "synced"
    /\ hist.fetched # {}
    /\ EvictedIds # {}
    /\ \E id \in call.cached_ids \cap roster : id \in DOMAIN aSeries

C20_IndexSavedOnceAtEnd ==
    /\ hist.saves <= 1
    /\ (InSync /\ call.pc # "synced") => hist.saves = 0 /\ aIndexFile = hist.snap.index
    /\ call.pc = "synced" =>
          /\ hist.saves = 1 <=> (call.synced > 0 \/ EvictedIds # {})
          /\ hist.saves = 0 => aIndexFile = hist.snap.index
          /\ call.synced = Cardinality(NewIds \ hist.failed)

\* C20 witness: two alphas added and one evicted, one write of the index
C20_Witness ==
    /\ call.pc = "synced"
    /\ call.synced = 2
    /\ EvictedIds # {}
    /\ hist.saves = 1
    /\ aIndexFile # hist.snap.index

\* a sync that found nothing to add or evict, and wrote nothing
C20_WitnessNoWrite ==
    /\ call.pc = "synced"
    /\ call.cached_ids # {}
    /\ hist.failed # {}
    /\ hist.saves = 0

(***************************************************************************)
(* The correlation engine.  A date is <<year, month, day>>; Timestamps     *)
(* compare as these tuples do.  A DataFrame of daily returns is the record *)
(* of its columns, its index (a set of dates) and its cells: at[d][c] is a *)
(* number or NaN.                                                          *)
(***************************************************************************)
Date(y, m, d) == <<y, m, d>>
year(d) == d[1]
month(d) == d[2]

\* Timestamp.__ge__
DateGeq(a, b) ==
    \/ a[1] > b[1]
    \/ a[1] = b[1] /\ a[2] > b[2]
    \/ a[1] = b[1] /\ a[2] = b[2] /\ a[3] >= b[3]

\* index.max(): the date no other date of the index exceeds
IndexMax(index) == CHOOSE d \in index : \A e \in index : DateGeq(d, e)

\* a cell or a correlation is NaN or Num(v)
NaN == <<>>
Num(v) == <<v>>

DataFrame(columns, index, at) == [columns |-> columns, index |-> index, at |-> at]

\* pd.DataFrame()
EmptyFrame == DataFrame({}, {}, <<>>)

\* DataFrame.empty: an axis of length 0
empty(df) == df.columns = {} \/ df.index = {}

\* returns[mask]: the rows whose date satisfies keep, cells as they were
Rows(df, keep) == DataFrame(df.columns, keep, [d \in keep |-> df.at[d]])

\* _trim_returns: the anchor year of an index whose latest date is last
anchor_year_never_next(latest) == year(latest)

anchor_year(latest) == IF month(latest) >= 7 THEN year(latest) + 1 ELSE year(latest)

\* _trim_returns(returns, years)
trim_returns(returns, years) ==
    IF empty(returns) THEN returns
    ELSE LET latest == IndexMax(returns.index)
             cutoff == Date(anchor_year(latest) - years, 1, 1)
         IN  Rows(returns, {d \in returns.index : DateGeq(d, cutoff)})

(***************************************************************************)
(* Specification SpecTrim: _trim_returns applied to frames of daily        *)
(* returns.  The frames have one column (a candidate's series, as          *)
(* _fetch_daily_returns builds it) or two (a block of baseline columns),   *)
(* and any dates of TrimDates as their index.                              *)
(***************************************************************************)
TrimDates ==
    {Date(2019, 12, 31), Date(2020, 1, 1), Date(2020, 12, 31), Date(2021, 1, 1),
     Date(2023, 6, 30), Date(2024, 6, 30), Date(2024, 7, 1), Date(2024, 8, 15)}

TrimYears == {1, 4}

TrimColumns == {{"A"}, {"X", "Y"}}

\* the return of column c on date d: any number will do, the trim keeps the cells
TrimCell(c, d) == IF c = "Y" THEN Num(d[3]) ELSE Num(d[2] + d[3])

TrimFrame(columns, index) ==
    DataFrame(columns, index, [d \in index |-> [c \in columns |-> TrimCell(c, d)]])

TrimInit ==
    /\ CacheInit /\ RtIdle /\ AwIdle /\ SyncIdle
    /\ \E columns \in TrimColumns : \E index \in SUBSET TrimDates : \E years \in TrimYears :
          args = [op |-> "_trim_returns", returns |-> TrimFrame(columns, index),
                  years |-> years]
    /\ out = <<>>

TrimReturns ==
    /\ out = <<>>
    /\ out' = <<trim_returns(args.returns, args.years)>>
    /\ UNCHANGED <<args, notCalc>>

TrimNext == TrimReturns

SpecTrim == TrimInit /\ [][TrimNext]_vars

\* the frame a finished call of op returned
Result == out[1]
Called(op) == args # <<>> /\ args.op = op /\ out # <<>>

\* the first year a date may have to be kept, as the claim words it
CutoffYear(index, years) ==
    LET latest == IndexMax(index)
        lastYear == latest[1]
        anchorYear == IF latest[2] \in 7..12 THEN lastYear + 1 ELSE lastYear
    IN  anchorYear - years

\* C13: _trim_returns keeps exactly the rows dated on or after January 1 of
\* (anchorYear - years), where anchorYear is the year after the latest date's
\* year when that date's month is July or later, and the latest date's year
\* otherwise; with the latest date 2024-08-15 and years = 4 exactly the rows
\* from 2021-01-01 on are kept.  The kept rows keep their cells.
C13_TrimKeepsFromAnchoredCutoff ==
    (Called("_trim_returns") /\ args.returns.index # {}) =>
        LET index == args.returns.index
            kept == {d \in index : d[1] >= CutoffYear(index, args.years)}
        IN  /\ Result.index = kept
            /\ Result.columns = args.returns.columns
            /\ \A d \in kept : Result.at[d] = args.returns.at[d]
            /\ (Date(2024, 8, 15) \in index /\ args.years = 4) =>
                   Result.index = index \ {Date(2019, 12, 31), Date(2020, 1, 1),
                                           Date(2020, 12, 31)}

\* the example of the claim, with rows on both sides of the cutoff, trimmed
C13_Witness ==
    /\ Called("_trim_returns")
    /\ args.years = 4
    /\ {Date(2020, 12, 31), Date(2021, 1, 1), Date(2024, 8, 15)} \subseteq args.returns.index
    /\ Date(2021, 1, 1) \in Result.index
    /\ Date(2020, 12, 31) \notin Result.index

(***************************************************************************)
(* Exact arithmetic for the Pearson correlation.  Returns are integers, so *)
(* a correlation is sign * sqrt(sq / den) with integers sq <= den; two     *)
(* such values are compared, and one is rounded to four decimals, through  *)
(* products of naturals below 2^30 held as four base-2^15 digits.          *)
(***************************************************************************)
RECURSIVE SumOver(_, _, _)
\* sum of f(d) over the dates of S, f a function on a superset of S
SumOver(S, f, acc) ==
    IF S = {} THEN acc
    ELSE LET d == CHOOSE e \in S : TRUE
         IN  SumOver(S \ {d}, f, acc + f[d])

Abs(n) == IF n < 0 THEN 0 - n ELSE n

\* a * b for 0 <= a, b < 2^30, most significant digit first
Product(a, b) ==
    LET a1 == a \div 32768
        a0 == a % 32768
        b1 == b \div 32768
        b0 == b % 32768
        p0 == a0 * b0
        t1 == a1 * b0 + a0 * b1 + (p0 \div 32768)
        t2 == a1 * b1 + (t1 \div 32768)
    IN  <<t2 \div 32768, t2 % 32768, t1 % 32768, p0 % 32768>>

RECURSIVE CmpDigits(_, _, _)
\* -1, 0 or 1 as x is below, equal to or above y, from digit j on
CmpDigits(x, y, j) ==
    IF j > Len(x) THEN 0
    ELSE IF x[j] < y[j] THEN 0 - 1
    ELSE IF x[j] > y[j] THEN 1
    ELSE CmpDigits(x, y, j + 1)

Cmp(x, y) == CmpDigits(x, y, 1)

\* a float that is a finite correlation: sign * sqrt(sq / den)
Corr(sign, sq, den) == [sign |-> sign, sq |-> sq, den |-> den]

\* Series.corr(other): Pearson correlation over the dates where both series
\* have a number; NaN when fewer than two such dates or a variance is zero
pearson(xs, ys, dates) ==
    LET valid == {d \in dates : xs[d] # NaN /\ ys[d] # NaN}
        n == Cardinality(valid)
        x == [d \in valid |-> xs[d][1]]
        y == [d \in valid |-> ys[d][1]]
        sx == SumOver(valid, x, 0)
        sy == SumOver(valid, y, 0)
        sxy == SumOver(valid, [d \in valid |-> x[d] * y[d]], 0)
        sxx == SumOver(valid, [d \in valid |-> x[d] * x[d]], 0)
        syy == SumOver(valid, [d \in valid |-> y[d] * y[d]], 0)
        cov == n * sxy - sx * sy
        vx == n * sxx - sx * sx
        vy == n * syy - sy * sy
    IN  IF n = 0 \/ vx = 0 \/ vy = 0 THEN NaN
        ELSE Num(Corr(IF cov < 0 THEN 0 - 1 ELSE IF cov > 0 THEN 1 ELSE 0, cov * cov, vx * vy))

\* p <= q for finite correlations
CorrLeq(p, q) ==
    IF p.sign # q.sign THEN p.sign < q.sign
    ELSE IF p.sign = 0 THEN TRUE
    ELSE LET c == Cmp(Product(p.sq, q.den), Product(q.sq, p.den))
         IN  IF p.sign = 1 THEN c <= 0 ELSE c >= 0

RECURSIVE RoundSearch(_, _, _, _)
\* the k of lo..hi nearest to 10^4 * sqrt(sq / den), the even one of two nearest
RoundSearch(sq, den, lo, hi) ==
    IF lo = hi THEN lo
    ELSE LET mid == (lo + hi + 1) \div 2
             c == Cmp(Product((2 * mid - 1) * (2 * mid - 1), den), Product(400000000, sq))
         IN  IF c < 0 \/ (c = 0 /\ mid % 2 = 0)
             THEN RoundSearch(sq, den, mid, hi)
             ELSE RoundSearch(sq, den, lo, mid - 1)

\* a Python float, in units of 0.0001
PFloat(k) == <<"float", k>>

\* round(float(corr_value), 4)
round4(p) == PFloat(p.sign * RoundSearch(p.sq, p.den, 0, 10000))

(***************************************************************************)
(* AlphaCache.fetch_correlation and the check built on it.  The cache      *)
(* object is the one of SpecSync: index.json in aIndexFile, the parquet    *)
(* files in aSeries, the loaded index in aMem, the loaded returns in       *)
(* aAllReturns.  Thresholds and correlations are in units of 0.0001.       *)
(***************************************************************************)
\* the value of column c on date d in the rows of a stored series, else NaN
CellOf(rows, d) ==
    IF \E j \in 1..Len(rows) : rows[j][1] = d
    THEN Num(rows[CHOOSE j \in 1..Len(rows) : rows[j][1] = d][2])
    ELSE NaN

\* pd.concat(frames, axis=1).sort_index(): the union of the dates, NaN where a
\* column has no row
concat(frames) ==
    IF DOMAIN frames = {} THEN EmptyFrame
    ELSE LET index == UNION {{frames[c][j][1] : j \in 1..Len(frames[c])} : c \in DOMAIN frames}
         IN  DataFrame(DOMAIN frames, index,
                       [d \in index |-> [c \in DOMAIN frames |-> CellOf(frames[c], d)]])

\* frame[columns]
Select(df, columns) ==
    DataFrame(columns, df.index, [d \in df.index |-> [c \in columns |-> df.at[d][c]]])

\* frame.loc[dates, c]: one column as a function of the date
Column(df, c, dates) == [d \in dates |-> df.at[d][c]]

MIN_COMMON_DATES == 30

\* len(common_dates) < 30
too_few_inclusive(common_dates) == Cardinality(common_dates) <= MIN_COMMON_DATES

too_few(common_dates) == Cardinality(common_dates) < MIN_COMMON_DATES

\* baseline_block.corrwith(candidate_series), then .replace(inf, nan).dropna():
\* the finite correlations, by baseline column
corrwith(baseline_block, candidate_series, dates) ==
    LET all == [c \in baseline_block.columns |->
                    pearson(Column(baseline_block, c, dates), candidate_series, dates)]
    IN  [c \in {x \in baseline_block.columns : all[x] # NaN} |-> all[c][1]]

\* sort_values(ascending=False): p stands before q
before_ascending(p, q) == CorrLeq(p, q)

before(p, q) == CorrLeq(q, p)

RECURSIVE sort_values(_, _)
\* the columns of correlations in sorted order; equal values in any one order
sort_values(correlations, todo) ==
    IF todo = {} THEN <<>>
    ELSE LET first == CHOOSE c \in todo :
                          \A x \in todo : before(correlations[c], correlations[x])
         IN  <<first>> \o sort_values(correlations, todo \ {first})

\* CorrelationData(schema=..., max=..., min=..., records=...)
CorrelationData(schema, max, min, records) ==
    [schema |-> schema, max |-> max, min |-> min, records |-> records]

\* CorrelationData()
EmptyCorrelationData == CorrelationData(PNone, PNone, PNone, <<>>)

\* one row of records: the partner, its index entry's fields, the correlation
CorrelationRecord(ix, partner_id, corr_value) ==
    LET raw == ix.alphas[partner_id]
    IN  [alpha_id |-> partner_id, region |-> raw.region,
         correlation |-> round4(corr_value), sharpe |-> raw.sharpe]

\* fetch_correlation from the trimmed frames on
correlate(ix, alpha_id, candidate_trimmed, baseline_trimmed, ids) ==
    LET common_dates == candidate_trimmed.index \cap baseline_trimmed.index
    IN  IF too_few(common_dates) THEN EmptyCorrelationData
        ELSE LET candidate_series == Column(candidate_trimmed, alpha_id, common_dates)
                 correlations == corrwith(Select(baseline_trimmed, ids), candidate_series,
                                          common_dates)
                 order == sort_values(correlations, DOMAIN correlations)
             IN  IF order = <<>> THEN EmptyCorrelationData
                 ELSE CorrelationData(PStr(<<"S", "E", "L", "F">>),
                          round4(correlations[order[1]]),
                          round4(correlations[order[Len(order)]]),
                          [j \in 1..Len(order) |->
                              CorrelationRecord(ix, order[j], correlations[order[j]])])

\* AlphaCache.fetch_correlation for a corr_type other than PROD, on the cache
\* object whose _index is mem
fetch_correlation(mem, alpha_id, candidate_returns, region, corr_type, years) ==
    LET cached_returns == concat(all_returns(mem))
        ids == baseline_alpha_ids(mem, corr_type, region)
    IN  IF empty(cached_returns) \/ empty(candidate_returns) \/ region = ""
        THEN EmptyCorrelationData
        ELSE IF ids = {} THEN EmptyCorrelationData
        ELSE correlate(alpha_index(mem), alpha_id,
                       trim_returns(candidate_returns, years),
                       trim_returns(Select(cached_returns, ids), years), ids)

\* CorrelationData.is_self_type
is_self_type(corr_data) == corr_data.schema = PStr(<<"S", "E", "L", "F">>)

\* CorrelationData.parsed_records
parsed_records(corr_data) ==
    [j \in 1..Len(corr_data.records) |->
        [alpha_id |-> corr_data.records[j].alpha_id,
         correlation |-> corr_data.records[j].correlation]]

\* CorrelationCheckResult(max_correlation=..., passes_check=..., count=..., top_correlations=...)
CorrelationCheckResult(max_correlation, passes_check, count, top_correlations) ==
    [max_correlation |-> max_correlation, passes_check |-> passes_check,
     count |-> count, top_correlations |-> top_correlations]

\* corr_data.max < threshold
below_inclusive(max, threshold) == max[2] <= threshold

below(max, threshold) == max[2] < threshold

\* LocalCorrelationMixin._to_check_result
to_check_result(corr_data, threshold) ==
    IF corr_data.max = PNone THEN CorrelationCheckResult(PNone, TRUE, PNone, PNone)
    ELSE LET records == parsed_records(corr_data)
             self == is_self_type(corr_data) /\ records # <<>>
         IN  CorrelationCheckResult(corr_data.max, below(corr_data.max, threshold),
                 IF self THEN PInt(<<Len(records)>>) ELSE PNone,
                 IF self THEN PList(SubSeq(records, 1, Min(3, Len(records)))) ELSE PNone)

\* the loop of _build_check_response ends with all_passed still True
all_true(results) == \A j \in 1..Len(results) : results[j].passes_check

\* LocalCorrelationMixin._build_check_response, check_types without PROD
build_check_response(mem, alpha_id, candidate_returns, region, check_types, threshold, years) ==
    LET results == [j \in 1..Len(check_types) |->
                       to_check_result(
                           fetch_correlation(mem, alpha_id, candidate_returns, region,
                                             check_types[j], years),
                           threshold)]
        lastOf(t) == CHOOSE j \in 1..Len(check_types) :
                        /\ check_types[j] = t
                        /\ \A k \in (j + 1)..Len(check_types) : check_types[k] # t
    IN  [alpha_id |-> alpha_id, threshold |-> threshold, check_types |-> check_types,
         checks |-> [t \in Range(check_types) |-> results[lastOf(t)]],
         all_passed |-> all_true(results)]

(***************************************************************************)
(* Specification SpecCorr: fetch_correlation and _build_check_response on  *)
(* a cache of up to three alphas.  A stored series covers whole months     *)
(* (blocks) of DaysPerBlock trading days, its returns follow one of a few  *)
(* patterns with period 3, so that thirty common dates take two blocks.    *)
(***************************************************************************)
DaysPerBlock == 15

B22 == <<2022, 3>>
B23 == <<2023, 3>>
B24 == <<2024, 3>>
B24b == <<2024, 8>>

\* the return on a day of the month, by pattern
Pattern(p, day) ==
    LET r == day % 3
    IN  CASE p = "up" -> r
          [] p = "half" -> (IF r = 0 THEN 0 ELSE 3 - r)
          [] p = "down" -> 2 - r
          [] p = "step" -> (IF r = 2 THEN 1 ELSE 0)
          [] OTHER -> 1

\* the rows of a series over blocks, the last drop days missing
SeriesRows(blocks, p, drop) ==
    [j \in 1..(Len(blocks) * DaysPerBlock - drop) |->
        LET b == blocks[((j - 1) \div DaysPerBlock) + 1]
            day == ((j - 1) % DaysPerBlock) + 1
        IN  <<Date(b[1], b[2], day), Pattern(p, day)>>]

\* a candidate's frame as _fetch_daily_returns returns it
CandidateFrame(alpha_id, rows) == concat([c \in {alpha_id} |-> rows])

CandidateRows ==
    {<<>>, SeriesRows(<<B23, B24>>, "up", 0), SeriesRows(<<B23, B24>>, "up", 1),
     SeriesRows(<<B22, B23>>, "up", 0)}

S1 == SeriesRows(<<B23, B24>>, "half", 0)
S2 == SeriesRows(<<B22, B23, B24>>, "step", 0)
S3 == SeriesRows(<<B23, B24>>, "flat", 0)
S4 == SeriesRows(<<B23, B24, B24b>>, "down", 0)

\* what the cache holds of one alpha: nothing, or an index entry and, with
\* file, a daily-pnl file
Cached(region, pp, sharpe, file) ==
    [entry |-> AlphaIndexEntry(region, pp, sharpe), file |-> file]

Uncached == [entry |-> <<>>, file |-> <<>>]

CachedChoices(id) ==
    CASE id = "X" -> {Uncached, Cached("USA", FALSE, 2, <<>>)}
                         \cup {Cached("USA", FALSE, 2, <<r>>) : r \in {S1, S2, S3, S4}}
      [] id = "Y" -> {Uncached, Cached("USA", FALSE, 1, <<S1>>),
                      Cached("USA", TRUE, 1, <<S1>>)}
      [] OTHER -> {Uncached, Cached("EUR", FALSE, 1, <<S4>>)}

CorrYears == {1, 2}
CorrRegions == {"", "USA"}
Thresholds == {5000, 7000}
CheckTypeLists == {<<"SELF">>, <<"SELF", "POWER_POOL">>, <<"POWER_POOL", "SELF", "SELF">>}

CorrArgs ==
    [op : {"fetch_correlation"}, alpha_id : {"A"}, candidate_returns : CandidateRows,
     region : CorrRegions, check_types : {<<t>> : t \in CorrelationTypes},
     threshold : {0}, years : CorrYears]
    \cup
    [op : {"_build_check_response"}, alpha_id : {"A"}, candidate_returns : CandidateRows,
     region : {"USA"}, check_types : CheckTypeLists,
     threshold : Thresholds, years : CorrYears]

CorrInit ==
    /\ CacheInit /\ RtIdle /\ AwIdle
    /\ \E held \in [Ids -> UNION {CachedChoices(id) : id \in Ids}] :
          LET in == {id \in Ids : held[id].entry # <<>>}
              on == {id \in in : held[id].file # <<>>}
          IN  /\ \A id \in Ids : held[id] \in CachedChoices(id)
              /\ aIndexFile = <<[version |-> INDEX_VERSION, updated_at |-> isoformat(0),
                                 alphas |-> [id \in in |-> held[id].entry]]>>
              /\ aDirs = {"."} \cup {alpha_dir(id) : id \in on}
              /\ aSeries = [id \in on |-> Frame(id, held[id].file[1])]
    /\ roster = {} /\ aMem = <<>> /\ aAllReturns = <<>>
    /\ call = NoCallYet /\ hist = NoHist
    /\ args \in CorrArgs
    /\ out = <<>>

\* the lazy loads of self.index and self.all_returns stay in the object
CorrLoads ==
    /\ aMem' = <<alpha_index(aMem)>>
    /\ aAllReturns' = <<all_returns(aMem)>>

\* cache.fetch_correlation(alpha_id, candidate_returns, region, corr_type, years)
FetchCorrelationCall ==
    /\ out = <<>>
    /\ args.op = "fetch_correlation"
    /\ IF args.check_types[1] = "PROD"
       THEN /\ out' = <<Raised>>
            /\ UNCHANGED <<aMem, aAllReturns>>
       ELSE /\ out' = <<Returned(fetch_correlation(aMem, args.alpha_id,
                           CandidateFrame(args.alpha_id, args.candidate_returns),
                           args.region, args.check_types[1], args.years))>>
            /\ CorrLoads
    /\ UNCHANGED <<args, roster, aIndexFile, aDirs, aSeries, call, hist, cacheVars, rtVars, awVars>>

\* self._build_check_response(alpha_id, cache, candidate_returns, region,
\* check_types, threshold, years)
BuildCheckResponse ==
    /\ out = <<>>
    /\ args.op = "_build_check_response"
    /\ out' = <<Returned(build_check_response(aMem, args.alpha_id,
                    CandidateFrame(args.alpha_id, args.candidate_returns),
                    args.region, args.check_types, args.threshold, args.years))>>
    /\ CorrLoads
    /\ UNCHANGED <<args, roster, aIndexFile, aDirs, aSeries, call, hist, cacheVars, rtVars, awVars>>

CorrNext ==
    \/ FetchCorrelationCall
    \/ BuildCheckResponse

SpecCorr == CorrInit /\ [][CorrNext]_vars

(***************************************************************************)
(* Claims checked on SpecCorr.                                             *)
(***************************************************************************)
\* what the finished call returned
Value == out[1].val[1]
HasReturned(op) == Called(op) /\ ~out[1].raised

\* the engine's answer for type t, on the cache object and arguments at hand
EngineMax(t) ==
    fetch_correlation(aMem, args.alpha_id,
                      CandidateFrame(args.alpha_id, args.candidate_returns),
                      args.region, t, args.years).max

Fetched == HasReturned("fetch_correlation")
TheType == args.check_types[1]
TheCandidate == CandidateFrame(args.alpha_id, args.candidate_returns)

\* the baseline set after filtering: the alphas of the index in the asked
\* region and of the type's pool whose series is stored
FilteredBaseline ==
    {id \in IndexIds(aIndexFile) \cap DOMAIN aSeries :
        LET e == aIndexFile[1].alphas[id]
        IN  /\ e.region = args.region
            /\ e.is_power_pool <=> (TheType = "POWER_POOL")}

\* the stored series of the filtered baseline, side by side
BaselineFrame == Select(concat([id \in DOMAIN aSeries |-> aSeries[id].rows]), FilteredBaseline)

\* the dates the trimmed candidate and the trimmed baseline share
SharedDates ==
    trim_returns(TheCandidate, args.years).index \cap trim_returns(BaselineFrame, args.years).index

\* the candidate's correlation with baseline column id over the shared dates
SharedCorr(id) ==
    pearson(Column(BaselineFrame, id, SharedDates), Column(TheCandidate, args.alpha_id, SharedDates),
            SharedDates)

NoInput == FilteredBaseline = {} \/ args.candidate_returns = <<>> \/ args.region = ""

\* C12: fetch_correlation returns the empty result (max = min = None, no
\* records), and does not raise, when the filtered baseline set is empty, the
\* candidate series is empty, the region is unset, or the trimmed candidate
\* and the trimmed baseline share fewer than 30 dates; with at least 30 shared
\* dates and at least one finite correlation the result is not empty.
C12_EmptyResultCases ==
    (Called("fetch_correlation") /\ TheType # "PROD") =>
        /\ ~out[1].raised
        /\ (NoInput \/ Cardinality(SharedDates) < 30) =>
              /\ Value.max = PNone /\ Value.min = PNone /\ Value.records = <<>>
        /\ (~NoInput /\ Cardinality(SharedDates) >= 30
                /\ \E id \in FilteredBaseline : SharedCorr(id) # NaN) =>
              /\ Value.max # PNone /\ Value.min # PNone /\ Value.records # <<>>

\* a baseline and a candidate that share 29 dates after trimming: empty result
C12_Witness ==
    /\ Fetched
    /\ ~NoInput
    /\ Cardinality(SharedDates) = 2 * DaysPerBlock - 1
    /\ \E id \in FilteredBaseline : SharedCorr(id) # NaN
    /\ Value = EmptyCorrelationData

\* exactly thirty shared dates and a finite correlation: a result with records
C12_WitnessEnough ==
    /\ Fetched
    /\ Cardinality(SharedDates) = 30
    /\ Value.records # <<>>

\* the baseline entities whose correlation with the candidate is finite
FiniteBaseline == {id \in FilteredBaseline : SharedCorr(id) # NaN}

\* C14: when fetch_correlation computes correlations (inputs present, at
\* least 30 shared dates), records holds exactly one record per baseline
\* entity with a finite correlation (a zero-variance column has none), each
\* with that correlation rounded to four decimals, in non-increasing order of
\* correlation; max is the first record's correlation and min the last one's.
C14_RecordsSortedDescending ==
    (Fetched /\ ~NoInput /\ Cardinality(SharedDates) >= 30) =>
        LET records == Value.records
            n == Len(records)
        IN  /\ n = Cardinality(FiniteBaseline)
            /\ {records[j].alpha_id : j \in 1..n} = FiniteBaseline
            /\ \A j \in 1..n :
                  records[j].correlation = round4(SharedCorr(records[j].alpha_id)[1])
            /\ \A j \in 1..(n - 1) :
                  records[j].correlation[2] >= records[j + 1].correlation[2]
            /\ n > 0 => /\ Value.max = records[1].correlation
                        /\ Value.min = records[n].correlation

\* two baseline entities with different correlations, in descending order
C14_Witness ==
    /\ Fetched
    /\ Len(Value.records) = 2
    /\ Value.records[1].correlation[2] > Value.records[2].correlation[2]
    /\ Value.max[2] > Value.min[2]

\* a zero-variance baseline column next to one with a finite correlation
C14_WitnessDropped ==
    /\ Fetched
    /\ Len(Value.records) = 1
    /\ Cardinality(FilteredBaseline) = 2

\* the baseline trimmed with the cutoff derived from the candidate's latest date
BaselineAtCandidateCutoff ==
    Rows(BaselineFrame,
         {d \in BaselineFrame.index : d[1] >= CutoffYear(TheCandidate.index, args.years)})

\* C18: fetch_correlation trims the candidate and the baseline with the same
\* cutoff, the one derived from the candidate's latest date: its result is the
\* one computed from the baseline rows on or after that cutoff, whatever the
\* latest date of the baseline is.
C18_BaselineTrimmedAtCandidateCutoff ==
    (Fetched /\ ~NoInput) =>
        Value = correlate(alpha_index(aMem), args.alpha_id,
                          trim_returns(TheCandidate, args.years),
                          BaselineAtCandidateCutoff, FilteredBaseline)

(***************************************************************************)
(* check_local_correlation and batch_check_local_correlation.  remote maps *)
(* a candidate id to the rows of its daily-pnl record set and to its       *)
(* region on the platform.  Both calls begin with _sync_baseline on a new  *)
(* AlphaCache; the cache here is in step with the roster (nothing new,     *)
(* nothing stale), so the sync loads the index and returns.                *)
(***************************************************************************)
\* self._fetch_daily_returns(alpha_id)
fetch_daily_returns(remote, alpha_id) == CandidateFrame(alpha_id, remote[alpha_id].rows)

\* LocalCorrelationMixin.check_local_correlation
check_local_correlation(mem, remote, alpha_id, check_types, threshold, years) ==
    IF "PROD" \in Range(check_types) THEN Raised
    ELSE Returned(build_check_response(mem, alpha_id, fetch_daily_returns(remote, alpha_id),
                                       remote[alpha_id].region, check_types, threshold, years))

\* DataFrame.corr(): the Pearson correlation of every pair of columns
corr(df) ==
    [a \in df.columns |-> [b \in df.columns |->
        pearson(Column(df, a, df.index), Column(df, b, df.index), df.index)]]

\* LocalCorrelationMixin.batch_check_local_correlation, alpha_ids distinct
batch_check_local_correlation(mem, remote, alpha_ids, check_types, threshold, years) ==
    IF "PROD" \in Range(check_types) THEN Raised
    ELSE LET candidate_returns_list == [c \in Range(alpha_ids) |-> remote[c].rows]
             candidate_returns == concat(candidate_returns_list)
         IN  Returned(
                 [intra_correlation |-> corr(trim_returns(candidate_returns, years)),
                  inter_correlation |->
                      [alpha_id \in Range(alpha_ids) |->
                          build_check_response(mem, alpha_id,
                              Select(candidate_returns, {alpha_id}),
                              remote[alpha_id].region, check_types, threshold, years)]])

(***************************************************************************)
(* Specification SpecBatch: one call of check_local_correlation or of      *)
(* batch_check_local_correlation for the candidates A and B, against a     *)
(* cache of one alpha.                                                     *)
(***************************************************************************)
BatchCandidates == {"A", "B"}

RemoteRows(id) ==
    IF id = "A"
    THEN {SeriesRows(<<B23, B24>>, "up", 0), SeriesRows(<<B23>>, "up", 0)}
    ELSE {SeriesRows(<<B24>>, "down", 0), SeriesRows(<<B23, B24, B24b>>, "down", 0)}

RemoteRegions(id) == IF id = "A" THEN {"USA"} ELSE {"EUR"}

Remotes ==
    {r \in [BatchCandidates -> [rows : UNION {RemoteRows(id) : id \in BatchCandidates},
                           region : {"USA", "EUR"}]] :
        \A id \in BatchCandidates : /\ r[id].rows \in RemoteRows(id)
                               /\ r[id].region \in RemoteRegions(id)}

BatchCheckTypes == {<<"SELF">>, <<"POWER_POOL", "SELF">>, <<"PROD">>}

BatchArgs ==
    [op : {"check_local_correlation"}, alpha_ids : {<<"A">>, <<"B">>}, remote : Remotes,
     check_types : BatchCheckTypes, threshold : {5000}, years : CorrYears]
    \cup
    [op : {"batch_check_local_correlation"},
     alpha_ids : {<<"A">>, <<"A", "B">>, <<"B", "A">>}, remote : Remotes,
     check_types : BatchCheckTypes, threshold : {5000}, years : CorrYears]

BatchCached(id) ==
    CASE id = "X" -> {Cached("USA", FALSE, 2, <<S1>>), Cached("USA", FALSE, 2, <<S2>>)}
      [] OTHER -> {Uncached}

BatchInit ==
    /\ CacheInit /\ RtIdle /\ AwIdle
    /\ \E held \in [Ids -> UNION {BatchCached(id) : id \in Ids}] :
          LET in == {id \in Ids : held[id].entry # <<>>}
              on == {id \in in : held[id].file # <<>>}
          IN  /\ \A id \in Ids : held[id] \in BatchCached(id)
              /\ aIndexFile = <<[version |-> INDEX_VERSION, updated_at |-> isoformat(0),
                                 alphas |-> [id \in in |-> held[id].entry]]>>
              /\ aDirs = {"."} \cup {alpha_dir(id) : id \in on}
              /\ aSeries = [id \in on |-> Frame(id, held[id].file[1])]
              /\ roster = in
    /\ aMem = <<>> /\ aAllReturns = <<>>
    /\ call = NoCallYet /\ hist = NoHist
    /\ args \in BatchArgs
    /\ out = <<>>

\* the cache object of the call when it ends: none when the call raised before
\* making one, else the loaded index and the loaded returns
BatchLoads ==
    IF "PROD" \in Range(args.check_types) THEN UNCHANGED <<aMem, aAllReturns>> ELSE CorrLoads

\* await brain_client.check_local_correlation(alpha_id, check_types, threshold, years)
CheckLocalCorrelationCall ==
    /\ out = <<>>
    /\ args.op = "check_local_correlation"
    /\ out' = <<check_local_correlation(aMem, args.remote, args.alpha_ids[1],
                    args.check_types, args.threshold, args.years)>>
    /\ BatchLoads
    /\ UNCHANGED <<args, roster, aIndexFile, aDirs, aSeries, call, hist, cacheVars, rtVars, awVars>>

\* await brain_client.batch_check_local_correlation(alpha_ids, check_types, threshold, years)
BatchCheckLocalCorrelationCall ==
    /\ out = <<>>
    /\ args.op = "batch_check_local_correlation"
    /\ out' = <<batch_check_local_correlation(aMem, args.remote, args.alpha_ids,
                    args.check_types, args.threshold, args.years)>>
    /\ BatchLoads
    /\ UNCHANGED <<args, roster, aIndexFile, aDirs, aSeries, call, hist, cacheVars, rtVars, awVars>>

BatchNext ==
    \/ CheckLocalCorrelationCall
    \/ BatchCheckLocalCorrelationCall

SpecBatch == BatchInit /\ [][BatchNext]_vars

(***************************************************************************)
(* Claims checked on SpecBatch.                                            *)
(***************************************************************************)
\* C17: every entry of inter_correlation that batch_check_local_correlation
\* returns is the response check_local_correlation returns for that id alone,
\* on the same cache, the same remote data and the same check_types, threshold
\* and years.
C17_BatchEntryIsSingleCheck ==
    HasReturned("batch_check_local_correlation") =>
        \A alpha_id \in Range(args.alpha_ids) :
            Returned(Value.inter_correlation[alpha_id]) =
                check_local_correlation(aMem, args.remote, alpha_id,
                                        args.check_types, args.threshold, args.years)

(***************************************************************************)
(* _cluster_alphas (tools/correlation_tools.py).  intra_df is the pairwise *)
(* correlation matrix of the candidates: its columns in order, and the     *)
(* value of each pair of columns in units of 0.001 (NaN for none);         *)
(* id_to_sharpe maps some of the ids to a Sharpe.                          *)
(***************************************************************************)
\* the entries of seq that satisfy keep, in order
RECURSIVE Filter(_, _)
Filter(seq, keep) ==
    IF seq = <<>> THEN <<>>
    ELSE (IF Head(seq) \in keep THEN <<Head(seq)>> ELSE <<>>) \o Filter(Tail(seq), keep)

\* round(val, 2), in units of 0.01, from units of 0.001
round2(val) ==
    LET a == Abs(val)
        q == a \div 10
        r == a % 10
        up == IF r > 5 \/ (r = 5 /\ q % 2 = 1) THEN q + 1 ELSE q
    IN  IF val < 0 THEN 0 - up ELSE up

\* the pairs (a1, a2, round(val, 2)) with abs(val) >= corr_threshold, in loop order
correlated_pairs(alpha_ids, intra, corr_threshold) ==
    LET n == Len(alpha_ids)
        slots == [k \in 1..(n * n) |-> <<((k - 1) \div n) + 1, ((k - 1) % n) + 1>>]
        hit(k) == /\ slots[k][1] < slots[k][2]
                  /\ LET val == intra[<<alpha_ids[slots[k][1]], alpha_ids[slots[k][2]]>>]
                     IN  val # NaN /\ Abs(val[1]) >= corr_threshold
        kept == SelectSeq([k \in 1..(n * n) |-> k], hit)
    IN  [j \in 1..Len(kept) |->
            LET a1 == alpha_ids[slots[kept[j]][1]]
                a2 == alpha_ids[slots[kept[j]][2]]
            IN  <<a1, a2, round2(intra[<<a1, a2>>][1])>>]

RECURSIVE find(_, _)
\* find(x) with path halving: <<the root of x, parent afterwards>>
find(parent, x) ==
    IF parent[x] = x THEN <<x, parent>>
    ELSE LET halved == [parent EXCEPT ![x] = parent[parent[x]]]
         IN  find(halved, halved[x])

\* union(a, b): parent afterwards
union_without_find(parent, a, b) == [parent EXCEPT ![a] = b]

union_never(parent, a, b) == parent

union(parent, a, b) ==
    LET fa == find(parent, a)
        fb == find(fa[2], b)
    IN  IF fa[1] # fb[1] THEN [fb[2] EXCEPT ![fa[1]] = fb[1]] ELSE fb[2]

RECURSIVE union_all(_, _)
union_all(parent, pairs) ==
    IF pairs = <<>> THEN parent
    ELSE union_all(union(parent, Head(pairs)[1], Head(pairs)[2]), Tail(pairs))

RECURSIVE build_clusters(_, _, _)
\* clusters[find(aid)].append(aid) for the ids in order: <<roots in insertion
\* order, parent afterwards>>
build_clusters(parent, alpha_ids, roots) ==
    IF alpha_ids = <<>> THEN <<roots, parent>>
    ELSE LET f == find(parent, Head(alpha_ids))
         IN  build_clusters(f[2], Tail(alpha_ids),
                            IF f[1] \in Range(roots) THEN roots ELSE Append(roots, f[1]))

RECURSIVE sorted_desc(_, _)
\* sorted(seq, key=key, reverse=True): stable, equal keys keep their order
sorted_desc(seq, key) ==
    IF seq = <<>> THEN <<>>
    ELSE LET j == CHOOSE k \in 1..Len(seq) :
                     /\ \A m \in 1..Len(seq) : key[seq[k]] >= key[seq[m]]
                     /\ \A m \in 1..(k - 1) : key[seq[m]] < key[seq[k]]
         IN  <<seq[j]>> \o sorted_desc(SubSeq(seq, 1, j - 1) \o SubSeq(seq, j + 1, Len(seq)), key)

\* best = members_sorted[0]
best_of_last(members_sorted) == members_sorted[Len(members_sorted)]

best_of(members_sorted) == members_sorted[1]

\* the partner notes of aid: the other end and the value of each of its pairs
partner_notes(pairs, aid) ==
    LET mine(pr) == pr[1] = aid \/ pr[2] = aid
        own == SelectSeq(pairs, mine)
    IN  [j \in 1..Len(own) |->
            <<IF own[j][1] = aid THEN own[j][2] ELSE own[j][1], own[j][3]>>]

\* the rows of cluster number ci
cluster_rows(ci, members, id_to_sharpe, pairs) ==
    LET members_sorted == sorted_desc(members, id_to_sharpe)
        best == best_of(members_sorted)
    IN  [j \in 1..Len(members_sorted) |->
            LET aid == members_sorted[j]
            IN  [alpha_id |-> aid, sharpe |-> id_to_sharpe[aid], cluster |-> ci,
                 recommend |-> IF aid = best THEN "SUBMIT" ELSE "SKIP",
                 correlated_with |-> partner_notes(pairs, aid)]]

RECURSIVE all_rows(_, _, _, _, _)
all_rows(ci, ordered, members, id_to_sharpe, pairs) ==
    IF ci > Len(ordered) THEN <<>>
    ELSE cluster_rows(ci, members[ordered[ci]], id_to_sharpe, pairs)
            \o all_rows(ci + 1, ordered, members, id_to_sharpe, pairs)

\* the largest of a non-empty set of numbers
Max(S) == CHOOSE x \in S : \A y \in S : y <= x

\* _cluster_alphas(intra_df, id_to_sharpe, corr_threshold)
cluster_alphas(columns, intra, id_to_sharpe, corr_threshold) ==
    LET alpha_ids == Filter(columns, DOMAIN id_to_sharpe)
        pairs == correlated_pairs(alpha_ids, intra, corr_threshold)
        parent == union_all([a \in Range(alpha_ids) |-> a], pairs)
        built == build_clusters(parent, alpha_ids, <<>>)
        roots == built[1]
        members == [r \in Range(roots) |->
                       Filter(alpha_ids, {a \in Range(alpha_ids) : find(built[2], a)[1] = r})]
        best_sharpe == [r \in Range(roots) |->
                           Max({id_to_sharpe[a] : a \in Range(members[r])})]
    IN  all_rows(1, sorted_desc(roots, best_sharpe), members, id_to_sharpe, pairs)

(***************************************************************************)
(* Specification SpecCluster: _cluster_alphas on the matrix of three       *)
(* candidates.                                                             *)
(***************************************************************************)
ClusterColumns == <<"A", "B", "C">>
ClusterPairs == {<<"A", "B">>, <<"A", "C">>, <<"B", "C">>}
PairValues == {NaN, Num(0 - 800), Num(499), Num(500)}
Sharpes == {0, 1, 2}
ClusterThresholds == {500, 700}

ClusterInit ==
    /\ CacheInit /\ RtIdle /\ AwIdle /\ SyncIdle
    /\ \E known \in SUBSET Range(ClusterColumns) :
          args \in [op : {"_cluster_alphas"}, columns : {ClusterColumns},
                    intra : [ClusterPairs -> PairValues],
                    id_to_sharpe : [known -> Sharpes],
                    corr_threshold : ClusterThresholds]
    /\ out = <<>>

ClusterAlphas ==
    /\ out = <<>>
    /\ out' = <<cluster_alphas(args.columns, args.intra, args.id_to_sharpe,
                               args.corr_threshold)>>
    /\ UNCHANGED <<args, notCalc>>

ClusterNext == ClusterAlphas

SpecCluster == ClusterInit /\ [][ClusterNext]_vars

\* the rows of cluster c in the output
RowsOf(c) == {j \in 1..Len(Result) : Result[j].cluster = c}

\* C15: in the output of _cluster_alphas every cluster has exactly one member
\* recommended SUBMIT, no member of the cluster has a higher Sharpe than that
\* one, every other member is SKIP, and a cluster of one member is SUBMIT.
C15_OneSubmitPerCluster ==
    Called("_cluster_alphas") =>
        \A c \in {Result[j].cluster : j \in 1..Len(Result)} :
            LET submit == {j \in RowsOf(c) : Result[j].recommend = "SUBMIT"}
            IN  /\ Cardinality(submit) = 1
                /\ \A j \in submit : \A k \in RowsOf(c) : Result[k].sharpe <= Result[j].sharpe
                /\ \A k \in RowsOf(c) \ submit : Result[k].recommend = "SKIP"
                /\ Cardinality(RowsOf(c)) = 1 => submit = RowsOf(c)

\* A and B correlated, C isolated: A (higher Sharpe) SUBMIT, B SKIP, C SUBMIT
C15_Witness ==
    /\ Called("_cluster_alphas")
    /\ Len(Result) = 3
    /\ \E a, b, c \in 1..3 :
          /\ Result[a].cluster = Result[b].cluster /\ Result[c].cluster # Result[a].cluster
          /\ Result[a].sharpe > Result[b].sharpe
          /\ Result[a].recommend = "SUBMIT" /\ Result[b].recommend = "SKIP"
          /\ Result[c].recommend = "SUBMIT"

\* the candidates _cluster_alphas clusters: the columns that have a Sharpe
Clustered == Range(args.columns) \cap DOMAIN args.id_to_sharpe

\* the matrix value of two distinct candidates
PairValue(a, b) ==
    IF <<a, b>> \in ClusterPairs THEN args.intra[<<a, b>>] ELSE args.intra[<<b, a>>]

\* an edge of the threshold graph: |correlation| >= threshold
Edge(a, b) ==
    a # b /\ PairValue(a, b) # NaN /\ Abs(PairValue(a, b)[1]) >= args.corr_threshold

RECURSIVE Reached(_)
\* the clustered candidates a chain of edges leads to from those of seen
Reached(seen) ==
    LET more == seen \cup {b \in Clustered : \E a \in seen : Edge(a, b)}
    IN  IF more = seen THEN seen ELSE Reached(more)

\* the cluster label of candidate a in the output
ClusterOf(a) == Result[CHOOSE j \in 1..Len(Result) : Result[j].alpha_id = a].cluster

\* C23: two candidates get the same cluster label from _cluster_alphas exactly
\* when a chain of pairs with |correlation| >= threshold (equality included)
\* connects them: the clusters are the connected components of the threshold
\* graph.
C23_ClustersAreComponents ==
    Called("_cluster_alphas") =>
        \A a, b \in Clustered : (ClusterOf(a) = ClusterOf(b)) <=> (b \in Reached({a}))

\* A and C are joined only through B, one of the two links exactly at the
\* threshold, and all three share a cluster
C23_Witness ==
    /\ Called("_cluster_alphas")
    /\ Clustered = {"A", "B", "C"}
    /\ ~Edge("A", "C") /\ Edge("A", "B") /\ Edge("B", "C")
    /\ Abs(PairValue("A", "B")[1]) = args.corr_threshold
    /\ ClusterOf("A") = ClusterOf("C")

\* C30: in the output of _cluster_alphas every candidate with a Sharpe has
\* exactly one row, and no two candidates recommended SUBMIT have
\* |correlation| >= threshold with each other.
C30_SubmitsAreUncorrelated ==
    Called("_cluster_alphas") =>
        /\ \A a \in Clustered :
               Cardinality({j \in 1..Len(Result) : Result[j].alpha_id = a}) = 1
        /\ \A j, k \in 1..Len(Result) :
               (Result[j].recommend = "SUBMIT" /\ Result[k].recommend = "SUBMIT")
                   => ~Edge(Result[j].alpha_id, Result[k].alpha_id)

\* two correlated candidates and a third apart from both: two SUBMIT rows, the
\* correlated pair shares one of them
C30_Witness ==
    /\ Called("_cluster_alphas")
    /\ Clustered = {"A", "B", "C"}
    /\ Edge("A", "B") /\ ~Edge("A", "C") /\ ~Edge("B", "C")
    /\ Cardinality({j \in 1..Len(Result) : Result[j].recommend = "SUBMIT"}) = 2

(***************************************************************************)
(* Specification SpecGroup: _group_alpha_ids_by_region on a new AlphaCache *)
(* object, over the index files _sync_baseline can have saved: every entry *)
(* has the region of its alpha's settings (an AlphaRegion) and its         *)
(* is_power_pool flag.  region "" stands for region=None.                  *)
(***************************************************************************)
\* the dict _group_alpha_ids_by_region(tag, region) returns: the ids by region
by_region(ix, tag, region) ==
    LET ids == group_alpha_ids_by_region(ix, tag, region)
    IN  [r \in {ix.alphas[id].region : id \in ids} |->
            {id \in ids : ix.alphas[id].region = r}]

Tags == {"PPAC", "SelfCorr"}
GroupRegions == {"", "USA", "EUR"}
GroupEntries ==
    {<<>>} \cup {<<AlphaIndexEntry(r, pp, 1)>> : r \in {"USA", "EUR"}, pp \in BOOLEAN}

GroupInit ==
    /\ CacheInit /\ RtIdle /\ AwIdle
    /\ \E held \in [Ids -> GroupEntries] :
          LET in == {id \in Ids : held[id] # <<>>}
          IN  aIndexFile = <<[version |-> INDEX_VERSION, updated_at |-> isoformat(0),
                              alphas |-> [id \in in |-> held[id][1]]]>>
    /\ aDirs = {"."} /\ aSeries = <<>> /\ roster = {}
    /\ aMem = <<>> /\ aAllReturns = <<>>
    /\ call = NoCallYet /\ hist = NoHist
    /\ args \in [op : {"_group_alpha_ids_by_region"}, tag : Tags, region : GroupRegions]
    /\ out = <<>>

\* cache._group_alpha_ids_by_region(tag, region)
GroupAlphaIdsByRegion ==
    /\ out = <<>>
    /\ out' = <<by_region(alpha_index(aMem), args.tag, args.region)>>
    /\ aMem' = <<alpha_index(aMem)>>
    /\ UNCHANGED <<args, roster, aIndexFile, aDirs, aSeries, aAllReturns, call, hist,
                   cacheVars, rtVars, awVars>>

GroupNext == GroupAlphaIdsByRegion

SpecGroup == GroupInit /\ [][GroupNext]_vars

\* the ids in the lists of the returned dict
Grouped == UNION {Result[r] : r \in DOMAIN Result}

\* the tracked ids the claim selects for a tag
Selected(tag) ==
    {id \in DOMAIN aIndexFile[1].alphas :
        LET raw == aIndexFile[1].alphas[id]
        IN  /\ raw.is_power_pool = (tag = "PPAC")
            /\ args.region # "" => raw.region = args.region}

\* C24: _group_alpha_ids_by_region(tag, region) returns exactly the tracked ids
\* whose is_power_pool flag matches the tag (PPAC: true, SelfCorr: false) and,
\* when a region is given, whose region is that region, each under its own
\* region; the PPAC result and the SelfCorr result share no id.
C24_GroupMatchesFlagAndRegion ==
    Called("_group_alpha_ids_by_region") =>
        /\ Grouped = Selected(args.tag)
        /\ \A r \in DOMAIN Result : \A id \in Result[r] : aIndexFile[1].alphas[id].region = r
        /\ \A other \in Tags \ {args.tag} :
               Grouped \cap group_alpha_ids_by_region(aMem[1], other, args.region) = {}

\* a region is given, the index tracks a power-pool alpha of that region, one
\* of another region and one that is not power pool: only the first is returned
C24_Witness ==
    /\ Called("_group_alpha_ids_by_region")
    /\ args.tag = "PPAC" /\ args.region = "USA"
    /\ Cardinality(DOMAIN aIndexFile[1].alphas) = 3
    /\ Cardinality(Grouped) = 1
    /\ \E id \in DOMAIN aIndexFile[1].alphas :
          aIndexFile[1].alphas[id].is_power_pool /\ aIndexFile[1].alphas[id].region = "EUR"
    /\ \E id \in DOMAIN aIndexFile[1].alphas :
          ~aIndexFile[1].alphas[id].is_power_pool /\ aIndexFile[1].alphas[id].region = "USA"

(***************************************************************************)
(* SpecMemo: the methods of one AlphaCache object called in any order, and *)
(* the creation of a new object over the same directory.  call.kind is the *)
(* last method called, out what the last access of all_returns returned,   *)
(* hist.memo what the first access on the object at hand returned.         *)
(***************************************************************************)
MemoIds == {"X", "Y"}
MemoRows(id) == {DailyPnl(id), DailyPnl("Z")}

MemoCalled(kind) == [NoCallYet EXCEPT !.pc = "returned", !.kind = kind]

\* AlphaCache(): a new object over the directory
NewAlphaCache ==
    /\ aDirs' = aDirs \cup {"."}
    /\ aMem' = <<>>
    /\ aAllReturns' = <<>>
    /\ call' = MemoCalled("AlphaCache")
    /\ hist' = NoHist
    /\ out' = <<>>
    /\ UNCHANGED <<roster, aIndexFile, aSeries, args>>

\* cache.all_returns
AllReturns ==
    /\ aMem' = IF aAllReturns # <<>> THEN aMem ELSE <<alpha_index(aMem)>>
    /\ aAllReturns' = <<all_returns(aMem)>>
    /\ out' = <<all_returns(aMem)>>
    /\ hist' = IF hist.memo = <<>> THEN [hist EXCEPT !.memo = <<all_returns(aMem)>>] ELSE hist
    /\ call' = MemoCalled("all_returns")
    /\ UNCHANGED <<roster, aIndexFile, aDirs, aSeries, args>>

\* cache.register_alpha(id, entry)
RegisterAlpha(id) ==
    /\ aMem' = <<[alpha_index(aMem) EXCEPT !.alphas = With(@, id, RemoteAlpha(id))]>>
    /\ call' = MemoCalled("register_alpha")
    /\ UNCHANGED <<roster, aIndexFile, aDirs, aSeries, aAllReturns, hist, args, out>>

\* cache.save_alpha(id, daily_returns)
SaveAlpha(id, rows) ==
    /\ aDirs' = aDirs \cup {".", id}
    /\ aSeries' = With(aSeries, id, Frame(id, rows))
    /\ call' = MemoCalled("save_alpha")
    /\ UNCHANGED <<roster, aIndexFile, aMem, aAllReturns, hist, args, out>>

\* cache.save_index()
SaveIndex ==
    /\ IF aMem = <<>>
       THEN UNCHANGED <<aMem, aIndexFile, aDirs>>
       ELSE /\ aMem' = <<[aMem[1] EXCEPT !.updated_at = isoformat(now)]>>
            /\ aIndexFile' = <<[aMem[1] EXCEPT !.updated_at = isoformat(now)]>>
            /\ aDirs' = aDirs \cup {"."}
    /\ call' = MemoCalled("save_index")
    /\ UNCHANGED <<roster, aSeries, aAllReturns, hist, args, out>>

\* the eviction of _sync_baseline: cache.index["alphas"].pop(id), rmtree
EvictAlpha(id) ==
    /\ aMem' = <<[alpha_index(aMem) EXCEPT !.alphas = Restrict(@, DOMAIN @ \ {id})]>>
    /\ aDirs' = aDirs \ {id}
    /\ aSeries' = Restrict(aSeries, DOMAIN aSeries \ {id})
    /\ call' = MemoCalled("evict")
    /\ UNCHANGED <<roster, aIndexFile, aAllReturns, hist, args, out>>

MemoInit == CacheInit /\ RtIdle /\ AwIdle /\ SyncIdle /\ CalcIdle

MemoNext ==
    \/ NewAlphaCache /\ UNCHANGED <<cacheVars, rtVars, awVars>>
    \/ AllReturns /\ UNCHANGED <<cacheVars, rtVars, awVars>>
    \/ \E id \in MemoIds : RegisterAlpha(id) /\ UNCHANGED <<cacheVars, rtVars, awVars>>
    \/ \E id \in MemoIds : \E rows \in MemoRows(id) :
          SaveAlpha(id, rows) /\ UNCHANGED <<cacheVars, rtVars, awVars>>
    \/ SaveIndex /\ UNCHANGED <<cacheVars, rtVars, awVars>>
    \/ \E id \in MemoIds : EvictAlpha(id) /\ UNCHANGED <<cacheVars, rtVars, awVars>>

SpecMemo == MemoInit /\ [][MemoNext]_vars

\* the ids the object at hand tracks: its index in memory, else the one on disk
TrackedNow == IF aMem # <<>> THEN DOMAIN aMem[1].alphas ELSE IndexIds(alpha_load_index)

\* the frame a computation from the index and the series files gives now
Recomputed == [id \in TrackedNow \cap DOMAIN aSeries |-> aSeries[id].rows]

\* C25: the first access of all_returns on an AlphaCache object computes the
\* frame from the index and the series files, and every later access on the
\* same object returns that same frame, whatever register_alpha, save_alpha,
\* save_index or an eviction did in between; the first access on a newly
\* created object computes it again from the index and the files on disk.
C25_AllReturnsIsMemoized ==
    [][call'.kind = "all_returns" =>
           /\ hist.memo # <<>> => out' = hist.memo
           /\ hist.memo = <<>> => out' = <<Recomputed>>
           /\ call.kind = "AlphaCache" =>
                  out'[1] = [id \in IndexIds(alpha_load_index) \cap DOMAIN aSeries |->
                                aSeries[id].rows]]_vars

\* a later access returned the frame of the first access although the index
\* and the files have changed since: a column was registered and saved, and
\* another was evicted
C25_Witness ==
    /\ call.kind = "all_returns"
    /\ hist.memo # <<>> /\ out = hist.memo
    /\ out[1] # Recomputed
    /\ DOMAIN out[1] \ DOMAIN Recomputed # {}
    /\ DOMAIN Recomputed \ DOMAIN out[1] # {}

(***************************************************************************)
(* SpecSyncInt: SpecSync with interruptions.  A call in _sync_baseline is  *)
(* cut short where it stands (the process is killed, or the task is        *)
(* cancelled at an await: CancelledError is no Exception and passes the    *)
(* except clause of the loop); what it has done to the disk stays.         *)
(***************************************************************************)
\* the call is interrupted between load_index and the end of _sync_baseline;
\* inside the eviction loop, some of the stale directories are gone already
InterruptSync ==
    /\ call.pc \in {"roster", "reconcile", "entities"}
    /\ \E gone \in SUBSET (call.cached_ids \ Range(call.fetched)) :
          /\ call.pc # "reconcile" => gone = {}
          /\ aDirs' = aDirs \ gone
          /\ aSeries' = Restrict(aSeries, DOMAIN aSeries \ gone)
    /\ call' = Ended(call, "raised", "Interrupted")
    /\ hist' = [hist EXCEPT !.failed = {}]
    /\ UNCHANGED <<roster, aIndexFile, aMem, aAllReturns>>

\* the calls are single checks, with the default check types or with PROD
SyncIntNext ==
    \/ \E r \in SUBSET Ids : RemoteChange(r) /\ UNCHANGED notSync
    \/ \E ct \in {<<>>, <<{"PROD"}>>} :
          CheckLocalCorrelation("single", ct) /\ UNCHANGED notSync
    \/ EnsureAuthenticated /\ UNCHANGED notSync
    \/ EnterSync /\ UNCHANGED notSync
    \/ RosterPage /\ UNCHANGED notSync
    \/ Reconcile /\ UNCHANGED notSync
    \/ SyncEntity /\ UNCHANGED notSync
    \/ SyncFinish /\ UNCHANGED notSync
    \/ CandidateFetch /\ UNCHANGED notSync
    \/ InterruptSync /\ UNCHANGED notSync

SpecSyncInt == SyncInit /\ [][SyncIntNext]_vars

\* C28: whenever _sync_baseline is interrupted, every entity the index on
\* disk lists still has its series directory; so after a later sync every
\* tracked entity has a series.
C28_IndexNeverListsDeletedEntity ==
    /\ call.error = "Interrupted" => \A id \in IndexIds(aIndexFile) : id \in aDirs
    /\ call.pc = "synced" => \A id \in DOMAIN alpha_index(aMem).alphas : id \in DOMAIN aSeries

(***************************************************************************)
(* SpecSyncFair: single checks with the default check types, repeated for  *)
(* ever.  The event loop resumes every awaited step (weak fairness of the  *)
(* steps of a call, and of the next call being made); the platform answers *)
(* in the end: the login, each roster page and the fetch and save of each  *)
(* alpha succeed if they are tried again and again (strong fairness of     *)
(* their successful outcome, page by page and alpha by alpha).  The roster *)
(* may change for ever: no fairness is put on it.                          *)
(***************************************************************************)
AuthSucceeds == EnsureAuthenticated /\ call'.pc = "validate"
RosterPageSucceeds(offset) == RosterPage /\ call.offset = offset /\ call'.pc # "raised"
EntitySucceeds(id) == SyncEntity /\ id \in hist'.fetched \ hist'.failed /\ id \notin hist.fetched

SyncFairNext ==
    \/ \E r \in SUBSET Ids : RemoteChange(r) /\ UNCHANGED notSync
    \/ CheckLocalCorrelation("single", <<>>) /\ UNCHANGED notSync
    \/ EnsureAuthenticated /\ UNCHANGED notSync
    \/ EnterSync /\ UNCHANGED notSync
    \/ RosterPage /\ UNCHANGED notSync
    \/ Reconcile /\ UNCHANGED notSync
    \/ SyncEntity /\ UNCHANGED notSync
    \/ SyncFinish /\ UNCHANGED notSync
    \/ CandidateFetch /\ UNCHANGED notSync

SpecSyncFair ==
    /\ SyncInit
    /\ [][SyncFairNext]_vars
    /\ WF_vars(CheckLocalCorrelation("single", <<>>) /\ UNCHANGED notSync)
    /\ SF_vars(AuthSucceeds /\ UNCHANGED notSync)
    /\ WF_vars(EnterSync /\ UNCHANGED notSync)
    /\ \A offset \in {0, PageLimit} : SF_vars(RosterPageSucceeds(offset) /\ UNCHANGED notSync)
    /\ WF_vars(Reconcile /\ UNCHANGED notSync)
    /\ WF_vars(SyncEntity /\ UNCHANGED notSync)
    /\ \A id \in Ids : SF_vars(EntitySucceeds(id) /\ UNCHANGED notSync)
    /\ WF_vars(SyncFinish /\ UNCHANGED notSync)
    /\ WF_vars(CandidateFetch /\ UNCHANGED notSync)

\* the ids index.json listed when the call at hand began
TrackedBefore == IndexIds(hist.before.index)

\* C29: an alpha whose fetch or save failed during a sync is not in the index
\* when the sync returns, and a sync takes every alpha of the roster that
\* index.json does not list as new and fetches it; a sync that finds the ids
\* of index.json equal to the roster fetches nothing and leaves index.json as
\* it is; and if the roster stays the same from some time on, the ids of
\* index.json are those of the roster from some time on.
C29_FailedFetchesRetriedUntilConverged ==
    /\ [](call.pc = "synced" =>
            /\ \A id \in hist.failed : id \notin IndexIds(aIndexFile) /\ id \notin IndexIds(aMem)
            /\ \A id \in roster \ TrackedBefore :
                  id \in Range(call.new_alphas) /\ id \in hist.fetched \cup hist.failed
            /\ TrackedBefore = roster =>
                  /\ hist.fetched = {} /\ hist.failed = {}
                  /\ hist.saves = 0 /\ aIndexFile = hist.before.index)
    /\ \A r \in SUBSET Ids : <>[](roster = r) => <>[](IndexIds(aIndexFile) = r)

\* a sync has fetched and registered an alpha that index.json did not list
\* although its directory was there: an earlier sync had failed on it
C29_Witness ==
    /\ call.pc = "synced"
    /\ \E id \in hist.fetched \ hist.failed :
          /\ id \in hist.before.dirs
          /\ id \notin TrackedBefore
          /\ id \in IndexIds(aIndexFile)
    /\ IndexIds(aIndexFile) = roster

(***************************************************************************)
(* SpecThreads: warmup's thread pool.  The workers call write_table and    *)
(* write_dict on the one StaticCache of brain_client, each for a key of    *)
(* its own; the interpreter may switch threads between any two of the      *)
(* steps below.  args is the table of the workers: where each stands       *)
(* (pc), the text it has dumped for cache_index.json and the metadata it   *)
(* has loaded.                                                             *)
(***************************************************************************)
Workers == {"w1", "w2"}

Job(t) ==
    IF t = "w1"
    THEN [key |-> "t1", path |-> "a/x.csv", content |-> CsvFile(to_csv(T1)), ttl |-> 1,
          rc |-> <<Len(T1)>>]
    ELSE [key |-> "j1", path |-> "b/y.json", content |-> JsonFile(Dumps(D1)), ttl |-> 1,
          rc |-> <<>>]

WorkerIdle == [pc |-> "idle", dumped |-> <<>>, loaded |-> EmptyMap]

At(t, pc) == args # <<>> /\ args[t].pc = pc

\* warmup before the pool starts: cache.is_valid(key) loads the index
WarmupScan ==
    /\ args = <<>>
    /\ memIndex' = <<load_index>>
    /\ args' = [t \in Workers |-> WorkerIdle]
    /\ UNCHANGED <<now, files, dirs, meta, diskIndex, last, ret, clashed, out>>

\* write_table / write_dict up to the rename of the payload file
WorkerWritePayload(t) ==
    /\ At(t, "idle")
    /\ files' = With(files, Job(t).path, Job(t).content)
    /\ dirs' = dirs \cup {Parent(Job(t).path)}
    /\ args' = [args EXCEPT ![t].pc = "set"]
    /\ UNCHANGED <<now, meta, diskIndex, memIndex, last, ret, clashed, out>>

\* _update_index_and_meta: idx = self._load_index(); idx["entries"][key] = entry
WorkerSetEntry(t) ==
    /\ At(t, "set")
    /\ memIndex' = <<[load_index EXCEPT !.entries =
                        With(@, Job(t).key,
                             [cached_at |-> isoformat(now), ttl_days |-> Job(t).ttl,
                              path |-> Job(t).path, record_count |-> Job(t).rc])]>>
    /\ args' = [args EXCEPT ![t].pc = "dump"]
    /\ UNCHANGED <<now, files, dirs, meta, diskIndex, last, ret, clashed, out>>

\* _save_index: json.dumps(idx) of the shared dict; an entry another worker
\* adds while the encoder walks the dict makes it raise RuntimeError
WorkerDumpIndex(t) ==
    /\ At(t, "dump")
    /\ \/ args' = [args EXCEPT ![t].pc = "replace", ![t].dumped = <<load_index>>]
       \/ /\ \E u \in Workers \ {t} : At(u, "set")
          /\ args' = [args EXCEPT ![t].pc = "raised"]
    /\ UNCHANGED <<cacheVars, out>>

\* _atomic_write_text of cache_index.json: the temp file (mkstemp, a name of
\* its own) is written and renamed over the index
WorkerReplaceIndex(t) ==
    /\ At(t, "replace")
    /\ diskIndex' = args[t].dumped
    /\ args' = [args EXCEPT ![t].pc = "meta"]
    /\ UNCHANGED <<now, files, dirs, meta, memIndex, last, ret, clashed, out>>

\* meta = self._load_meta(file_subpath): the entries of the file's directory
WorkerLoadMeta(t) ==
    /\ At(t, "meta")
    /\ args' = [args EXCEPT ![t].pc = "savemeta",
                            ![t].loaded = Restrict(meta, {q \in DOMAIN meta :
                                                     Parent(q) = Parent(Job(t).path)})]
    /\ UNCHANGED <<cacheVars, out>>

\* meta[name] = meta_entry; self._save_meta(file_subpath, meta); return
WorkerSaveMeta(t) ==
    /\ At(t, "savemeta")
    /\ meta' = [q \in {x \in DOMAIN meta : Parent(x) # Parent(Job(t).path)}
                      \cup DOMAIN args[t].loaded \cup {Job(t).path} |->
                  IF q = Job(t).path
                  THEN [cached_at |-> isoformat(now), ttl_days |-> Job(t).ttl,
                        record_count |-> Job(t).rc]
                  ELSE IF q \in DOMAIN args[t].loaded THEN args[t].loaded[q] ELSE meta[q]]
    /\ args' = [args EXCEPT ![t].pc = "returned"]
    /\ UNCHANGED <<now, files, dirs, diskIndex, memIndex, last, ret, clashed, out>>

\* the same key is fetched again by a later warmup --force
WorkerAgain(t) ==
    /\ At(t, "returned") \/ At(t, "raised")
    /\ \A u \in Workers : args[u].pc \in {"returned", "raised"}
    /\ args' = [args EXCEPT ![t] = WorkerIdle]
    /\ UNCHANGED <<cacheVars, out>>

ThreadsInit == CacheInit /\ RtIdle /\ AwIdle /\ SyncIdle /\ CalcIdle

ThreadsNext ==
    \/ WarmupScan /\ UNCHANGED <<rtVars, awVars, syncVars>>
    \/ \E t \in Workers : WorkerWritePayload(t) /\ UNCHANGED <<rtVars, awVars, syncVars>>
    \/ \E t \in Workers : WorkerSetEntry(t) /\ UNCHANGED <<rtVars, awVars, syncVars>>
    \/ \E t \in Workers : WorkerDumpIndex(t) /\ UNCHANGED <<rtVars, awVars, syncVars>>
    \/ \E t \in Workers : WorkerReplaceIndex(t) /\ UNCHANGED <<rtVars, awVars, syncVars>>
    \/ \E t \in Workers : WorkerLoadMeta(t) /\ UNCHANGED <<rtVars, awVars, syncVars>>
    \/ \E t \in Workers : WorkerSaveMeta(t) /\ UNCHANGED <<rtVars, awVars, syncVars>>
    \/ \E t \in Workers : WorkerAgain(t) /\ UNCHANGED <<rtVars, awVars, syncVars>>

SpecThreads == ThreadsInit /\ [][ThreadsNext]_vars

\* every worker has been started and its write has returned
AllWritesReturned == args # <<>> /\ \A t \in Workers : args[t].pc = "returned"

\* C26: once the writes of all workers have returned, cache_index.json holds
\* an entry for the key of every worker.
C26_NoIndexUpdateLost ==
    AllWritesReturned =>
        /\ diskIndex # <<>>
        /\ \A t \in Workers : Job(t).key \in DOMAIN diskIndex[1].entries

====
